---- MODULE Spec2Model ----
(***************************************************************************)
(* update-watcher: the pipeline runner (main.go, final revision), the nine *)
(* source adapters (internal/sources), the two notifiers                  *)
(* (internal/notifier) and the date recognizer (internal/util/date.go).   *)
(*                                                                         *)
(* Time is counted in minutes.  A timestamp text is a record               *)
(*   [form, wall, off]                                                     *)
(* form: the textual shape of the string, wall: the wall-clock reading the *)
(* text spells out, off: the zone offset the text states (or, for a zone   *)
(* abbreviation, the offset its publisher means).  The instant the         *)
(* publisher means is wall - off.                                          *)
(***************************************************************************)
EXTENDS Integers, Sequences, FiniteSets, TLC

VARIABLES
    jsonMode,            \* main: the --json flag
    webhookURL,          \* main: SLACK_WEBHOOK_URL
    securityWebhookURL,  \* main: SLACK_SECURITY_WEBHOOK_URL
    localTZ,             \* the process's time.Local (read by time.Parse)
    outage,              \* the webhooks that are unreachable during this run
    pc,                  \* position of main / App.Run
    idx,                 \* App.Run: index of the next checker of a.checkers
    calls,               \* names of the checkers whose Check was invoked, in order
    errors,              \* App.Run: var errors []string
    hasUpdates,          \* App.Run: hasUpdates
    summary,             \* the summary notifications attempted by sendSummary
    runErr,              \* what App.Run returned ("" is nil)
    exitCode,            \* the process's exit status (-1 while running)
    stderr,              \* lines App.Run and main wrote to the log
    lastCheck,           \* the most recent Check: its inputs, result and output
    outcomes,            \* what the Checks of this run returned and the webhooks that
                         \* accepted an update of theirs: [failed, updated, delivered]
    lab,                 \* inputs and result of a pure function under test
    mu,                  \* JSONNotifier.mu: the goroutine holding it ("" when free)
    writer,              \* JSONNotifier.writer: the pieces written so far, in order
    callers,             \* the goroutines calling NotifyUpdate: position and progress
    ctxDone              \* the ctx handed to App.Run: whether it has been cancelled

envVars == <<jsonMode, webhookURL, securityWebhookURL, localTZ, outage>>
cfgVars == <<envVars, ctxDone>>
outVars == <<mu, writer, callers>>
vars == <<jsonMode, webhookURL, securityWebhookURL, localTZ, outage, pc, idx, calls, errors,
          hasUpdates, summary, runErr, exitCode, stderr, lastCheck, outcomes, lab,
          mu, writer, callers, ctxDone>>

(***************************************************************************)
(* Bounds of the model                                                     *)
(***************************************************************************)
MaxItems == 2          \* items of one decoded feed

(***************************************************************************)
(* internal/config/config.go                                               *)
(***************************************************************************)
\* Mutant: a window of one day.
CheckPeriodOneDay == 25 - 1

CheckPeriodHours == 25

MinutesPerHour == 60      \* time.Hour, in the model's unit

(***************************************************************************)
(* Date recognizer: internal/util/date.go                                  *)
(***************************************************************************)
\* The layouts of SupportedDateFormats, in the order ParseDate tries them.
SupportedDateFormats ==
    << "2006-01-02T15:04:05Z07:00",            \* time.RFC3339
       "Mon, 02 Jan 2006 15:04:05 -0700",      \* time.RFC1123Z
       "Mon, 02 Jan 2006 15:04:05 MST",        \* time.RFC1123
       "2006-01-02T15:04:05.999999999Z07:00",
       "2006-01-02T15:04:05.999",
       "2006-01-02T15:04:05Z",
       "2006-01-02",
       "Mon, 02 Jan 2006 15:04:05 -0700",
       "Mon, 02 Jan 2006 15:04:05 MST" >>

\* The textual shapes of a timestamp:
\*   iso_z      2024-01-15T10:00:00Z          iso_off   2024-01-15T10:00:00+09:00
\*   iso_frac   2024-01-15T10:00:00.123Z      iso_ms    2024-01-15T10:00:00.123
\*   iso_bare   2024-01-15T10:00:00           date      2024-01-15
\*   rfc1123z   Mon, 15 Jan 2024 10:00:00 +0900
\*   rfc1123gmt Mon, 15 Jan 2024 10:00:00 GMT (or UTC)
\*   rfc1123abbr Mon, 15 Jan 2024 10:00:00 PST
\*   rfc822d1   Mon, 5 Jan 2024 10:00:00 GMT  (one-digit day)
\*   garbage    any other non-empty text      empty     ""
Forms == {"iso_z", "iso_off", "iso_frac", "iso_ms", "iso_bare", "date", "rfc1123z",
          "rfc1123gmt", "rfc1123abbr", "rfc822d1", "garbage", "empty"}

NoTime == [ok |-> FALSE, t |-> 0]

\* The zone abbreviation of an rfc1123abbr text is one time.Local defines only
\* when the process runs in that zone; otherwise time.Parse fabricates a
\* location of that name with offset zero.
LocalKnowsAbbr == localTZ = "abbr"

\* time.Parse(layout, value): [ok, t], t the parsed instant.
TimeParse(layout, s) ==
    CASE layout \in {"2006-01-02T15:04:05Z07:00", "2006-01-02T15:04:05.999999999Z07:00"} ->
            IF s.form \in {"iso_z", "iso_off", "iso_frac"}
            THEN [ok |-> TRUE, t |-> s.wall - s.off] ELSE NoTime
      [] layout = "Mon, 02 Jan 2006 15:04:05 -0700" ->
            IF s.form = "rfc1123z" THEN [ok |-> TRUE, t |-> s.wall - s.off] ELSE NoTime
      [] layout = "Mon, 02 Jan 2006 15:04:05 MST" ->
            IF s.form = "rfc1123gmt" THEN [ok |-> TRUE, t |-> s.wall]
            ELSE IF s.form = "rfc1123abbr"
                 THEN [ok |-> TRUE,
                       t |-> IF LocalKnowsAbbr THEN s.wall - s.off ELSE s.wall]
                 ELSE NoTime
      [] layout = "2006-01-02T15:04:05.999" ->
            IF s.form \in {"iso_ms", "iso_bare"} THEN [ok |-> TRUE, t |-> s.wall] ELSE NoTime
      [] layout = "2006-01-02T15:04:05Z" ->
            IF s.form \in {"iso_z", "iso_frac"} THEN [ok |-> TRUE, t |-> s.wall] ELSE NoTime
      [] layout = "2006-01-02" ->
            IF s.form = "date" THEN [ok |-> TRUE, t |-> s.wall] ELSE NoTime
      [] OTHER -> NoTime

RECURSIVE ParseFrom(_, _)
ParseFrom(i, dateStr) ==
    IF i > Len(SupportedDateFormats) THEN NoTime
    ELSE LET r == TimeParse(SupportedDateFormats[i], dateStr)
         IN  IF r.ok THEN r ELSE ParseFrom(i + 1, dateStr)

\* ParseDate: the first layout that parses wins; [ok |-> FALSE] is the error.
ParseDate(dateStr) == ParseFrom(1, dateStr)

\* Mutant: the cutoff itself counts as recent (!Before instead of After).
IsRecentInclusive(dateStr, hoursAgo, now) ==
    LET p == ParseDate(dateStr)
    IN  IF ~p.ok THEN FALSE
        ELSE p.t >= now - hoursAgo * MinutesPerHour

\* IsRecent(dateStr, hoursAgo) with time.Now() = now.
IsRecent(dateStr, hoursAgo, now) ==
    LET p == ParseDate(dateStr)
    IN  IF ~p.ok THEN FALSE
        ELSE LET cutoff == now - hoursAgo * MinutesPerHour
             IN  p.t > cutoff


(***************************************************************************)
(* Text helpers: internal/util/text.go                                     *)
(*                                                                         *)
(* A Go string is a sequence of bytes.  A byte of an ASCII character is    *)
(* written as that character; the bytes of the three-byte character "ja"   *)
(* (any character of the CJK range in UTF-8) are "ja/1", "ja/2", "ja/3".   *)
(***************************************************************************)
\* The UTF-8 encoding of one character.
EncodeChar(c) == IF c = "ja" THEN <<"ja/1", "ja/2", "ja/3">> ELSE <<c>>

RECURSIVE Encode(_)
\* The string holding the characters chars.
Encode(chars) ==
    IF chars = <<>> THEN <<>> ELSE EncodeChar(Head(chars)) \o Encode(Tail(chars))

\* unicode.IsSpace on the characters of the model.
IsSpace(b) == b \in {" ", "\n", "\t", "\r"}

RECURSIVE TrimLeft(_)
TrimLeft(text) ==
    IF text # <<>> /\ IsSpace(Head(text)) THEN TrimLeft(Tail(text)) ELSE text

RECURSIVE TrimRight(_)
TrimRight(text) ==
    IF text # <<>> /\ IsSpace(text[Len(text)])
    THEN TrimRight(SubSeq(text, 1, Len(text) - 1)) ELSE text

\* Mutant: only one whitespace character is cut from each end.
TrimOneSpace(text) ==
    LET l == IF text # <<>> /\ IsSpace(Head(text)) THEN Tail(text) ELSE text
    IN  IF l # <<>> /\ IsSpace(l[Len(l)]) THEN SubSeq(l, 1, Len(l) - 1) ELSE l

\* strings.TrimSpace
TrimSpace(text) == TrimRight(TrimLeft(text))

Ellipsis == <<".", ".", ".">>

\* Mutant: text that exactly fills the budget is cut too.
TruncateTextCutsAtBudget(text, maxLength) ==
    LET t == TrimSpace(text)
    IN  IF Len(t) < maxLength THEN t ELSE SubSeq(t, 1, maxLength) \o Ellipsis

\* TruncateText: len(text) and text[:maxLength] count bytes.
TruncateText(text, maxLength) ==
    LET t == TrimSpace(text)
    IN  IF Len(t) <= maxLength THEN t ELSE SubSeq(t, 1, maxLength) \o Ellipsis


(***************************************************************************)
(* Markup stripping: the adapters' HTML cleaners                           *)
(***************************************************************************)
RECURSIVE ReplaceAll(_, _, _)
\* strings.ReplaceAll: the non-overlapping occurrences of old, left to right.
ReplaceAll(text, old, new) ==
    IF Len(text) < Len(old) THEN text
    ELSE IF SubSeq(text, 1, Len(old)) = old
         THEN new \o ReplaceAll(SubSeq(text, Len(old) + 1, Len(text)), old, new)
         ELSE <<Head(text)>> \o ReplaceAll(Tail(text), old, new)

CDataOpen == <<"<", "!", "[", "C", "D", "A", "T", "A", "[">>
CDataClose == <<"]", "]", ">">>
EntLt == <<"&", "l", "t", ";">>
EntGt == <<"&", "g", "t", ";">>
EntAmp == <<"&", "a", "m", "p", ";">>
EntQuot == <<"&", "q", "u", "o", "t", ";">>
EntApos == <<"&", "#", "3", "9", ";">>
TagBr == <<"<", "b", "r", ">">>
TagBrSlash == <<"<", "b", "r", "/", ">">>
TagBrSpaceSlash == <<"<", "b", "r", " ", "/", ">">>
TagEndP == <<"<", "/", "p", ">">>

\* text = strings.ReplaceAll(text, "&lt;", "<"), then "&gt;", then "&amp;"
DecodeEntities(text) ==
    ReplaceAll(ReplaceAll(ReplaceAll(text, EntLt, <<"<">>), EntGt, <<">">>), EntAmp, <<"&">>)

RECURSIVE StripTags(_, _)
\* Mutant: inside a tag every character is skipped, '>' included.
StripTagsNeverLeaves(text, inTag) ==
    IF text = <<>> THEN <<>>
    ELSE IF Head(text) = "<" THEN StripTags(Tail(text), TRUE)
    ELSE IF inTag THEN StripTags(Tail(text), inTag)
    ELSE IF Head(text) = ">" THEN StripTags(Tail(text), FALSE)
    ELSE <<Head(text)>> \o StripTags(Tail(text), inTag)

\* The scanner: '<' enters a tag, '>' leaves it, other characters are kept
\* outside tags.
StripTags(text, inTag) ==
    IF text = <<>> THEN <<>>
    ELSE IF Head(text) = "<" THEN StripTags(Tail(text), TRUE)
    ELSE IF Head(text) = ">" THEN StripTags(Tail(text), FALSE)
    ELSE IF inTag THEN StripTags(Tail(text), inTag)
    ELSE <<Head(text)>> \o StripTags(Tail(text), inTag)

RECURSIVE CollapseSpace(_)
\* regexp \s+ replaced by " "
CollapseSpace(text) ==
    IF text = <<>> THEN <<>>
    ELSE IF IsSpace(Head(text)) THEN <<" ">> \o CollapseSpace(TrimLeft(text))
    ELSE <<Head(text)>> \o CollapseSpace(Tail(text))

RECURSIVE Split(_, _)
\* strings.Split(text, sep) for a one-character sep
Split(text, sep) ==
    IF \A i \in 1..Len(text) : text[i] # sep THEN <<text>>
    ELSE LET k == CHOOSE i \in 1..Len(text) :
                      text[i] = sep /\ \A j \in 1..(i - 1) : text[j] # sep
         IN  <<SubSeq(text, 1, k - 1)>> \o Split(SubSeq(text, k + 1, Len(text)), sep)

RECURSIVE Join(_, _)
\* strings.Join
Join(parts, sep) ==
    IF parts = <<>> THEN <<>>
    ELSE IF Len(parts) = 1 THEN parts[1]
    ELSE parts[1] \o sep \o Join(Tail(parts), sep)

CRLF == <<"\r", "\n">>
LF == <<"\n">>

\* Mutant: the line terminators are converted before the length cut.
FormatMultilineTextNormalisesFirst(text, maxLength, maxLines) ==
    LET normal == ReplaceAll(TrimSpace(text), CRLF, LF)
        cut == IF Len(normal) > maxLength
               THEN SubSeq(normal, 1, maxLength) \o Ellipsis ELSE normal
        lines == Split(cut, "\n")
    IN  IF Len(lines) > maxLines
        THEN Join(SubSeq(lines, 1, maxLines), LF) \o Ellipsis
        ELSE cut

\* util.FormatMultilineText (internal/util/text.go)
FormatMultilineText(text, maxLength, maxLines) ==
    LET trimmed == TrimSpace(text)
        cut == IF Len(trimmed) > maxLength
               THEN SubSeq(trimmed, 1, maxLength) \o Ellipsis ELSE trimmed
        normal == ReplaceAll(cut, CRLF, LF)
        lines == Split(normal, "\n")
    IN  IF Len(lines) > maxLines
        THEN Join(SubSeq(lines, 1, maxLines), LF) \o Ellipsis
        ELSE normal

\* Cloudflare.cleanDescription up to its scanner: the CDATA markers removed
\* and the entities decoded
cleanDescriptionText(html) ==
    LET t1 == ReplaceAll(ReplaceAll(html, CDataOpen, <<>>), CDataClose, <<>>)
    IN  ReplaceAll(ReplaceAll(DecodeEntities(t1), EntQuot, <<"\"">>), EntApos, <<"'">>)

\* Cloudflare.cleanDescription
cleanDescription(html) == TrimSpace(StripTags(cleanDescriptionText(html), FALSE))

\* GCPSecurity.cleanHTMLContent up to its scanner
cleanHTMLContentText(html) ==
    DecodeEntities(ReplaceAll(ReplaceAll(html, CDataOpen, <<>>), CDataClose, <<>>))

\* GCPSecurity.cleanHTMLContent
cleanHTMLContent(html) ==
    CollapseSpace(TrimSpace(StripTags(cleanHTMLContentText(html), FALSE)))

\* AWS.extractPlainText up to its scanner: the entities decoded, then the
\* line-breaking tags turned into newlines
extractPlainTextText(html) ==
    ReplaceAll(ReplaceAll(ReplaceAll(ReplaceAll(DecodeEntities(html),
        TagBr, <<"\n">>), TagBrSlash, <<"\n">>), TagBrSpaceSlash, <<"\n">>),
        TagEndP, <<"\n">>)

\* AWS.extractPlainText
extractPlainText(html) ==
    LET cleaned == TrimSpace(StripTags(extractPlainTextText(html), FALSE))
        lines == Split(cleaned, "\n")
        trimmed == [i \in 1..Len(lines) |-> TrimSpace(lines[i])]
        nonEmpty == SelectSeq(trimmed, LAMBDA l : l # <<>>)
    IN  IF Len(nonEmpty) > 2 THEN Join(SubSeq(nonEmpty, 1, 2), <<" ">>)
        ELSE Join(nonEmpty, <<" ">>)

\* The markup-stripping function of each adapter that has one.
StripMarkup(impl, html) ==
    CASE impl = "Cloudflare" -> cleanDescription(html)
      [] impl = "GCPSecurity" -> cleanHTMLContent(html)
      [] impl = "AWS" -> extractPlainText(html)

\* The text each of them hands to its scanner.
ScannerInput(impl, html) ==
    CASE impl = "Cloudflare" -> cleanDescriptionText(html)
      [] impl = "GCPSecurity" -> cleanHTMLContentText(html)
      [] impl = "AWS" -> extractPlainTextText(html)


(***************************************************************************)
(* HTTP client: internal/client/http.go, NVD.fetchNVDAPI                   *)
(*                                                                         *)
(* A response of the network is [net, status, read, payload]: net = FALSE  *)
(* when HTTPClient.Do fails (connection error, timeout, cancelled          *)
(* context), status the final status code, read = FALSE when reading the   *)
(* body fails.  A fetch returns [err, data]; err = "" is nil.              *)
(***************************************************************************)
StatusText(code) ==
    CASE code = 200 -> "200" [] code = 204 -> "204" [] code = 404 -> "404"
      [] code = 500 -> "500" [] OTHER -> "???"

NoData == [malformed |-> TRUE, items |-> <<>>]

\* Mutant: the status code is not looked at.
FetchURLAnyStatus(resp) ==
    IF ~resp.net THEN [err |-> "failed to fetch URL", data |-> NoData]
    ELSE IF ~resp.read THEN [err |-> "failed to read response", data |-> NoData]
    ELSE [err |-> "", data |-> resp.payload]

FetchURL(resp) ==
    IF ~resp.net THEN [err |-> "failed to fetch URL", data |-> NoData]
    ELSE IF resp.status # 200
         THEN [err |-> "unexpected status code: " \o StatusText(resp.status), data |-> NoData]
    ELSE IF ~resp.read THEN [err |-> "failed to read response", data |-> NoData]
    ELSE [err |-> "", data |-> resp.payload]

FetchGitHubAPI(resp) ==
    IF ~resp.net THEN [err |-> "failed to fetch GitHub API", data |-> NoData]
    ELSE IF ~resp.read THEN [err |-> "failed to read response", data |-> NoData]
    ELSE IF resp.status # 200
         THEN [err |-> "unexpected status " \o StatusText(resp.status), data |-> NoData]
    ELSE [err |-> "", data |-> resp.payload]

fetchNVDAPI(resp) ==
    IF ~resp.net THEN [err |-> "failed to execute request", data |-> NoData]
    ELSE IF resp.status # 200
         THEN [err |-> "unexpected status code: " \o StatusText(resp.status), data |-> NoData]
    ELSE IF ~resp.read THEN [err |-> "failed to read response", data |-> NoData]
    ELSE [err |-> "", data |-> resp.payload]

\* fmt.Errorf("<prefix>: %w", err)
Wrap(prefix, err) == prefix \o ": " \o err

(***************************************************************************)
(* Notifiers: internal/notifier                                            *)
(*                                                                         *)
(* A message is [header, updates]: the adapter's headline and the rendered *)
(* updates joined under it; an update is [title, link].  A notifier is     *)
(* [kind, url].  Notify returns [err, posts, records]: the webhook POSTs   *)
(* attempted and the JSON lines written.                                   *)
(***************************************************************************)
NewSlack(url) == [kind |-> "slack", url |-> url]
NewJSON == [kind |-> "json", url |-> ""]

\* SlackNotifier.Notify; out = [net, status] is what the webhook answers.
SlackNotify(n, message, out) ==
    LET post == [to |-> n.url, msg |-> message,
                 status |-> IF out.net THEN out.status ELSE 0]
    IN  [err |-> IF ~out.net THEN "failed to post to slack"
                 ELSE IF out.status # 200
                      THEN "slack returned status " \o StatusText(out.status)
                      ELSE "",
         posts |-> <<post>>,
         records |-> <<>>]

\* NVD.filterRecentCVEs: https://nvd.nist.gov/vuln/detail/<id>
NVDLink(id) == "https://nvd/" \o id

Titles == {"", "t1", "t2"}

\* The links that match https?://[^|>]+ ; "" and "/rel" do not.
HTTPLinks == {"https://a", "https://b"} \cup {NVDLink(t) : t \in Titles}

IsHTTP(link) == link \in HTTPLinks

\* The text the renderers put after the link inside <link|text>.
LinkText == "|text"

RECURSIVE Dedup(_, _)
\* the elements of seq not in seen, in order, each once
Dedup(seq, seen) ==
    IF seq = <<>> THEN <<>>
    ELSE IF Head(seq) \in seen THEN Dedup(Tail(seq), seen)
         ELSE <<Head(seq)>> \o Dedup(Tail(seq), seen \cup {Head(seq)})

Range(seq) == {seq[i] : i \in 1..Len(seq)}

\* extractURLs: first the <URL|text> matches, then the plain matches of
\* https?://[^\s<>]+, which run on through "|text" up to the closing ">".
extractURLs(message) ==
    LET links == SelectSeq([i \in 1..Len(message.updates) |-> message.updates[i].link],
                           IsHTTP)
        slack == Dedup(links, {})
        plain == Dedup([i \in 1..Len(links) |-> links[i] \o LinkText], Range(slack))
    IN  slack \o plain

\* extractTitle: the first *bold* span of the message, which is the headline.
extractTitle(message) == message.header

RECURSIVE WriteRecords(_, _, _, _)
\* JSONNotifier.Notify's loop over urls from position i: NotifyUpdate writes
\* one line per url and the first failing write (failAt) ends the loop.
WriteRecords(message, urls, i, failAt) ==
    IF i > Len(urls) THEN [err |-> "", records |-> <<>>]
    ELSE IF i = failAt THEN [err |-> "write failed", records |-> <<>>]
    ELSE LET rest == WriteRecords(message, urls, i + 1, failAt)
         IN  [err |-> rest.err,
              records |-> <<[url |-> urls[i], project |-> "",
                             title |-> extractTitle(message),
                             summary |-> message]>> \o rest.records]

\* JSONNotifier.Notify; out = [failAt]: the write that fails (0: none).
JSONNotify(message, out) ==
    LET r == WriteRecords(message, extractURLs(message), 1, out.failAt)
    IN  [err |-> r.err, posts |-> <<>>, records |-> r.records]

\* Notifier.Notify, dispatched on the dynamic type.
Notify(n, message, out) ==
    IF n.kind = "json" THEN JSONNotify(message, out) ELSE SlackNotify(n, message, out)


(***************************************************************************)
(* GCPSecurity.extractCVEIDs                                               *)
(***************************************************************************)
IsDigit(c) == c \in {"0", "1", "2", "3", "4", "5", "6", "7", "8", "9"}

\* All of text[from..to] exist and are digits.
Digits(text, from, to) == to <= Len(text) /\ \A k \in from..to : IsDigit(text[k])

\* The length of the match of CVE-\d{4}-\d{4,7} that starts at position i
\* (the quantifier is greedy), 0 when there is none.
MatchCVEAt(text, i) ==
    IF /\ i + 12 <= Len(text)
       /\ SubSeq(text, i, i + 3) = <<"C", "V", "E", "-">>
       /\ Digits(text, i + 4, i + 7)
       /\ text[i + 8] = "-"
       /\ Digits(text, i + 9, i + 12)
    THEN IF Digits(text, i + 13, i + 15) THEN 16
         ELSE IF Digits(text, i + 13, i + 14) THEN 15
         ELSE IF Digits(text, i + 13, i + 13) THEN 14
         ELSE 13
    ELSE 0

RECURSIVE FindAllCVE(_, _)
\* re.FindAllString(html, -1): the leftmost non-overlapping matches from i on.
FindAllCVE(text, i) ==
    IF i > Len(text) THEN <<>>
    ELSE LET n == MatchCVEAt(text, i)
         IN  IF n > 0 THEN <<SubSeq(text, i, i + n - 1)>> \o FindAllCVE(text, i + n)
             ELSE FindAllCVE(text, i + 1)

\* Mutant: the cap is applied to the matches, before the duplicates go.
extractCVEIDsCapsFirst(html) ==
    LET matches == FindAllCVE(html, 1)
    IN  Dedup(IF Len(matches) > 3 THEN SubSeq(matches, 1, 3) ELSE matches, {})

\* extractCVEIDs: the matches, each once, at most three of them.
extractCVEIDs(html) ==
    LET unique == Dedup(FindAllCVE(html, 1), {})
    IN  IF Len(unique) > 3 THEN SubSeq(unique, 1, 3) ELSE unique

(***************************************************************************)
(* GCPSecurity.extractSeverity                                             *)
(***************************************************************************)
Uppers == <<"A", "B", "C", "D", "E", "F", "G", "H", "I", "J", "K", "L", "M", "N", "O", "P", "Q", "R", "S", "T", "U", "V", "W", "X", "Y", "Z">>
Lowers == <<"a", "b", "c", "d", "e", "f", "g", "h", "i", "j", "k", "l", "m", "n", "o", "p", "q", "r", "s", "t", "u", "v", "w", "x", "y", "z">>

\* strings.ToLower on ASCII text
ToLower(text) ==
    [i \in 1..Len(text) |->
        IF \E k \in 1..Len(Uppers) : Uppers[k] = text[i]
        THEN Lowers[CHOOSE k \in 1..Len(Uppers) : Uppers[k] = text[i]]
        ELSE text[i]]

RECURSIVE Contains(_, _)
\* strings.Contains
Contains(text, substr) ==
    IF Len(text) < Len(substr) THEN FALSE
    ELSE IF SubSeq(text, 1, Len(substr)) = substr THEN TRUE
    ELSE Contains(Tail(text), substr)

Critical == <<"c", "r", "i", "t", "i", "c", "a", "l">>
High == <<"h", "i", "g", "h">>
Moderate == <<"m", "o", "d", "e", "r", "a", "t", "e">>
Medium == <<"m", "e", "d", "i", "u", "m">>
Low == <<"l", "o", "w">>
Unknown == <<"u", "n", "k", "n", "o", "w", "n">>
EndTd == <<"<", "/", "t", "d", ">">>

\* severities := []string{"critical", "high", "moderate", "medium", "low"}
severities == <<Critical, High, Moderate, Medium, Low>>

\* Mutant: the list is walked from its end.
severitiesLowFirst == <<Low, Medium, Moderate, High, Critical>>

RECURSIVE FirstSeverity(_, _, _)
\* for _, severity := range severities: the first one found between '>'
\* and '<' (or "</td>")
FirstSeverity(html, list, i) ==
    IF i > Len(list) THEN Unknown
    ELSE IF \/ Contains(html, <<">">> \o list[i] \o <<"<">>)
            \/ Contains(html, <<">">> \o list[i] \o EndTd)
         THEN list[i]
         ELSE FirstSeverity(html, list, i + 1)

\* Mutant: the lowest severity found wins.
extractSeverityLowestWins(html) == FirstSeverity(ToLower(html), severitiesLowFirst, 1)

\* GCPSecurity.extractSeverity
extractSeverity(html) == FirstSeverity(ToLower(html), severities, 1)


(***************************************************************************)
(* NVD.getSeverity and NVD.getCVSSScore                                    *)
(*                                                                         *)
(* A metric is [Type, BaseScore, BaseSeverity] (NVDCVSSMetric, the score   *)
(* in tenths); metrics is [V31, V30, V2] (NVDMetrics), each a sequence.    *)
(***************************************************************************)
HasSeverity(metric) == metric.BaseSeverity # ""
HasScore(metric) == metric.BaseScore > 0

\* The test a tier applies to an entry: what is "severity" or "score".
Has(metric, what) == IF what = "severity" THEN HasSeverity(metric) ELSE HasScore(metric)

\* for _, metric := range list: the positions of the Primary entries that
\* have the value, in order.
PrimaryWith(list, what) ==
    SelectSeq([i \in 1..Len(list) |-> i],
              LAMBDA i : list[i].Type = "Primary" /\ Has(list[i], what))

\* Mutant: the first entry is looked at before the Primary ones.
TierEntryFirstEntryFirst(list, what) ==
    IF Len(list) = 0 THEN 0
    ELSE IF Has(list[1], what) THEN 1
    ELSE IF PrimaryWith(list, what) # <<>> THEN PrimaryWith(list, what)[1]
    ELSE 0

\* One tier: the first Primary entry that has the value, else the first
\* entry if it has it; 0 when the tier yields nothing.
TierEntry(list, what) ==
    IF Len(list) = 0 THEN 0
    ELSE IF PrimaryWith(list, what) # <<>> THEN PrimaryWith(list, what)[1]
    ELSE IF Has(list[1], what) THEN 1
    ELSE 0

\* Mutant: the oldest version is tried first.
getSeverityOldestFirst(metrics) ==
    IF TierEntry(metrics.V2, "severity") > 0
    THEN metrics.V2[TierEntry(metrics.V2, "severity")].BaseSeverity
    ELSE IF TierEntry(metrics.V30, "severity") > 0
    THEN metrics.V30[TierEntry(metrics.V30, "severity")].BaseSeverity
    ELSE IF TierEntry(metrics.V31, "severity") > 0
    THEN metrics.V31[TierEntry(metrics.V31, "severity")].BaseSeverity
    ELSE "UNKNOWN"

\* getSeverity
getSeverity(metrics) ==
    IF TierEntry(metrics.V31, "severity") > 0
    THEN metrics.V31[TierEntry(metrics.V31, "severity")].BaseSeverity
    ELSE IF TierEntry(metrics.V30, "severity") > 0
    THEN metrics.V30[TierEntry(metrics.V30, "severity")].BaseSeverity
    ELSE IF TierEntry(metrics.V2, "severity") > 0
    THEN metrics.V2[TierEntry(metrics.V2, "severity")].BaseSeverity
    ELSE "UNKNOWN"

\* getCVSSScore
getCVSSScore(metrics) ==
    IF TierEntry(metrics.V31, "score") > 0
    THEN metrics.V31[TierEntry(metrics.V31, "score")].BaseScore
    ELSE IF TierEntry(metrics.V30, "score") > 0
    THEN metrics.V30[TierEntry(metrics.V30, "score")].BaseScore
    ELSE IF TierEntry(metrics.V2, "score") > 0
    THEN metrics.V2[TierEntry(metrics.V2, "score")].BaseScore
    ELSE 0

(***************************************************************************)
(* Source adapters: internal/sources                                       *)
(*                                                                         *)
(* A decoded item is [date, published, title, tag, link]: date is the      *)
(* item's timestamp field (Atom: updated), published the Atom entry's      *)
(* published field, tag a release's tag_name.  The environment of one      *)
(* Check is env = [resp, clocks, out]: the response to the fetch, the      *)
(* reading of time.Now() at each item of the filter loop, and the answer   *)
(* of the output sink.  Check returns                                      *)
(*   [updated, err, rendered, posts, records, log].                        *)
(***************************************************************************)
EmptyDate == [form |-> "empty", wall |-> 0, off |-> 0]

RECURSIVE KeepRecent(_, _, _)
\* Mutant: an unparseable date ends the loop.
KeepRecentStopsAtBadDate(cands, clocks, i) ==
    IF i > Len(cands) THEN <<>>
    ELSE IF ~ParseDate(cands[i].date).ok THEN <<>>
    ELSE IF IsRecent(cands[i].date, CheckPeriodHours, clocks[i])
         THEN <<cands[i].update>> \o KeepRecent(cands, clocks, i + 1)
         ELSE KeepRecent(cands, clocks, i + 1)

\* The filter loop shared by the filterRecent* functions: cands[i] is
\* [date, update], kept when IsRecent(date, CheckPeriodHours) at clocks[i].
KeepRecent(cands, clocks, i) ==
    IF i > Len(cands) THEN <<>>
    ELSE IF IsRecent(cands[i].date, CheckPeriodHours, clocks[i])
         THEN <<cands[i].update>> \o KeepRecent(cands, clocks, i + 1)
         ELSE KeepRecent(cands, clocks, i + 1)

\* The "Warning: failed to parse date" lines IsRecent logs during the loop.
ParseWarnings(cands) ==
    SelectSeq([i \in 1..Len(cands) |-> IF ParseDate(cands[i].date).ok THEN "" ELSE "Warning"],
              LAMBDA l : l # "")

\* Mutant: published, else updated.
AtomCandsPublishedFirst(entries) ==
    [i \in 1..Len(entries) |->
        [date |-> IF entries[i].published = EmptyDate THEN entries[i].date
                  ELSE entries[i].published,
         update |-> [title |-> entries[i].title, link |-> entries[i].link]]]

\* GCP.filterRecentEntries / GCPSecurity.filterRecentBulletins: updated, else published
AtomCands(entries) ==
    [i \in 1..Len(entries) |->
        [date |-> IF entries[i].date = EmptyDate THEN entries[i].published
                  ELSE entries[i].date,
         update |-> [title |-> entries[i].title, link |-> entries[i].link]]]

\* Go.filterRecentReleases / Terraform.filterRecentReleases: name, else tag_name
ReleaseCands(releases) ==
    [i \in 1..Len(releases) |->
        [date |-> releases[i].date,
         update |-> [title |-> IF releases[i].title = "" THEN releases[i].tag
                               ELSE releases[i].title,
                     link |-> releases[i].link]]]

\* AWS.filterRecentBulletins, Cloudflare.filterRecentPosts,
\* Debian.filterRecentAdvisories, GitHub.filterRecentAdvisories
ItemCands(items) ==
    [i \in 1..Len(items) |->
        [date |-> items[i].date,
         update |-> [title |-> items[i].title, link |-> items[i].link]]]

\* NVD.filterRecentCVEs: the link is built from the CVE id
NVDCands(vulns) ==
    [i \in 1..Len(vulns) |->
        [date |-> vulns[i].date,
         update |-> [title |-> vulns[i].title, link |-> NVDLink(vulns[i].title)]]]

\* formatMessage
formatMessage(header, updates) == [header |-> header, updates |-> updates]

CheckResult(updated, err, rendered, n, log) ==
    [updated |-> updated, err |-> err, rendered |-> rendered,
     posts |-> n.posts, records |-> n.records, log |-> log]

NoOutput == [err |-> "", posts |-> <<>>, records |-> <<>>]

\* Mutant: the early return is missing.
NothingRecentNever(recent) == FALSE

\* if len(recentUpdates) == 0 { return false, nil }
NothingRecent(recent) == Len(recent) = 0

\* The body every Check shares after the fetch: decode, filter, notify.
CheckBody(name, fetched, fetchMsg, parseMsg, cands, notifier, env) ==
    IF fetched.err # ""
    THEN CheckResult(FALSE, Wrap(fetchMsg, fetched.err), <<>>, NoOutput, <<"Checking">>)
    ELSE IF fetched.data.malformed
    THEN CheckResult(FALSE, Wrap(parseMsg, "syntax error"), <<>>, NoOutput, <<"Checking">>)
    ELSE LET recent == KeepRecent(cands, env.clocks, 1)
             log == <<"Checking">> \o ParseWarnings(cands)
         IN  IF NothingRecent(recent)
             THEN CheckResult(FALSE, "", recent, NoOutput, log \o <<"No recent">>)
             ELSE LET n == Notify(notifier, formatMessage(name, recent), env.out)
                  IN  IF n.err # ""
                      THEN CheckResult(FALSE, n.err, recent, n, log)
                      ELSE CheckResult(TRUE, "", recent, n, log)

GCPCheck(notifier, env) ==
    LET f == FetchURL(env.resp)
    IN  CheckBody("GCP Release Notes", f, "failed to fetch GCP RSS",
                  "failed to parse GCP Atom feed", AtomCands(f.data.items), notifier, env)

GoCheck(notifier, env) ==
    LET f == FetchGitHubAPI(env.resp)
    IN  CheckBody("Go", f, "failed to fetch Go releases",
                  "failed to parse Go releases", ReleaseCands(f.data.items), notifier, env)

TerraformCheck(notifier, env) ==
    LET f == FetchGitHubAPI(env.resp)
    IN  CheckBody("Terraform", f, "failed to fetch Terraform releases",
                  "failed to parse Terraform releases", ReleaseCands(f.data.items),
                  notifier, env)

AWSCheck(notifier, env) ==
    LET f == FetchURL(env.resp)
    IN  CheckBody("AWS Security Bulletins", f, "failed to fetch AWS security feed",
                  "failed to parse AWS RSS feed", ItemCands(f.data.items), notifier, env)

CloudflareCheck(notifier, env) ==
    LET f == FetchURL(env.resp)
    IN  CheckBody("Cloudflare Security Blog", f, "failed to fetch Cloudflare security blog",
                  "failed to parse Cloudflare RSS feed", ItemCands(f.data.items),
                  notifier, env)

GCPSecurityCheck(notifier, env) ==
    LET f == FetchURL(env.resp)
    IN  CheckBody("GCP Security Bulletins", f, "failed to fetch GCP security feed",
                  "failed to parse GCP security Atom feed", AtomCands(f.data.items),
                  notifier, env)

DebianCheck(notifier, env) ==
    LET f == FetchURL(env.resp)
    IN  CheckBody("Debian Security Advisories", f, "failed to fetch Debian security feed",
                  "failed to parse Debian RSS feed", ItemCands(f.data.items), notifier, env)

NVDCheck(notifier, env) ==
    LET f == fetchNVDAPI(env.resp)
    IN  CheckBody("NVD CVE Database", f, "failed to fetch NVD CVE data",
                  "failed to parse NVD response", NVDCands(f.data.items), notifier, env)

GitHubCheck(notifier, env) ==
    LET f == FetchGitHubAPI(env.resp)
    IN  CheckBody("GitHub Security Advisories", f, "failed to fetch advisories",
                  "failed to parse advisories", ItemCands(f.data.items), notifier, env)

\* nc.Checker.Check(ctx): dispatch on the checker's dynamic type
Check(nc, env) ==
    CASE nc.kind = "GCP" -> GCPCheck(nc.notifier, env)
      [] nc.kind = "Go" -> GoCheck(nc.notifier, env)
      [] nc.kind = "Terraform" -> TerraformCheck(nc.notifier, env)
      [] nc.kind = "AWS" -> AWSCheck(nc.notifier, env)
      [] nc.kind = "Cloudflare" -> CloudflareCheck(nc.notifier, env)
      [] nc.kind = "GCPSecurity" -> GCPSecurityCheck(nc.notifier, env)
      [] nc.kind = "Debian" -> DebianCheck(nc.notifier, env)
      [] nc.kind = "NVD" -> NVDCheck(nc.notifier, env)
      [] nc.kind = "GitHub" -> GitHubCheck(nc.notifier, env)


(***************************************************************************)
(* Pipeline runner: main.go (final revision, lines 672-825)                *)
(***************************************************************************)
\* Mutant: the security adapters get a notifier of their own only when
\* the two webhooks are equal.
NewAppSwapsCondition(webhook, securityWebhook, json) ==
    LET n == IF json THEN NewJSON ELSE NewSlack(webhook)
        securityN == IF json THEN n
                     ELSE IF securityWebhook # "" /\ securityWebhook = webhook
                          THEN n
                          ELSE NewSlack(securityWebhook)
    IN  [notifier |-> n,
         securityNotifier |-> securityN,
         jsonMode |-> json,
         checkers |->
           << [Name |-> "GCP Release Notes", kind |-> "GCP", notifier |-> n],
              [Name |-> "Go Releases", kind |-> "Go", notifier |-> n],
              [Name |-> "Terraform Releases", kind |-> "Terraform", notifier |-> n],
              [Name |-> "AWS Security Bulletins", kind |-> "AWS", notifier |-> securityN],
              [Name |-> "Cloudflare Security Blog", kind |-> "Cloudflare",
               notifier |-> securityN],
              [Name |-> "GCP Security Bulletins", kind |-> "GCPSecurity",
               notifier |-> securityN],
              [Name |-> "Debian Security Advisories", kind |-> "Debian",
               notifier |-> securityN],
              [Name |-> "NVD CVE Database", kind |-> "NVD", notifier |-> securityN],
              [Name |-> "GitHub Security Advisories", kind |-> "GitHub",
               notifier |-> securityN] >>]

\* NewApp: the two notifiers and the checkers in their fixed order.
NewApp(webhook, securityWebhook, json) ==
    LET n == IF json THEN NewJSON ELSE NewSlack(webhook)
        securityN == IF json THEN n
                     ELSE IF securityWebhook # "" /\ securityWebhook # webhook
                          THEN NewSlack(securityWebhook)
                          ELSE n
    IN  [notifier |-> n,
         securityNotifier |-> securityN,
         jsonMode |-> json,
         checkers |->
           << [Name |-> "GCP Release Notes", kind |-> "GCP", notifier |-> n],
              [Name |-> "Go Releases", kind |-> "Go", notifier |-> n],
              [Name |-> "Terraform Releases", kind |-> "Terraform", notifier |-> n],
              [Name |-> "AWS Security Bulletins", kind |-> "AWS", notifier |-> securityN],
              [Name |-> "Cloudflare Security Blog", kind |-> "Cloudflare",
               notifier |-> securityN],
              [Name |-> "GCP Security Bulletins", kind |-> "GCPSecurity",
               notifier |-> securityN],
              [Name |-> "Debian Security Advisories", kind |-> "Debian",
               notifier |-> securityN],
              [Name |-> "NVD CVE Database", kind |-> "NVD", notifier |-> securityN],
              [Name |-> "GitHub Security Advisories", kind |-> "GitHub",
               notifier |-> securityN] >>]

\* The App main builds from the flags and the environment.
app == NewApp(webhookURL, securityWebhookURL, jsonMode)

\* fmt.Sprintf("<cross mark> %s: %v", nc.Name, err)
ErrorLine(name, err) == [marker |-> "cross mark", name |-> name, err |-> err]

\* Mutant: an error resets hasUpdates.
RunStepErrorClearsUpdates(nc, r, errs, upd, log) ==
    IF r.err # ""
    THEN [errors |-> Append(errs, ErrorLine(nc.Name, r.err)),
          hasUpdates |-> FALSE,
          stderr |-> log]
    ELSE [errors |-> errs,
          hasUpdates |-> IF r.updated THEN TRUE ELSE upd,
          stderr |-> log]

\* The loop body of App.Run applied to the result r of checker nc:
\* the new [errors, hasUpdates, stderr].
RunStep(nc, r, errs, upd, log) ==
    IF r.err # ""
    THEN [errors |-> Append(errs, ErrorLine(nc.Name, r.err)),
          hasUpdates |-> upd,
          stderr |-> IF ~jsonMode
                     THEN Append(log, [line |-> "Error checking", name |-> nc.Name])
                     ELSE log]
    ELSE [errors |-> errs,
          hasUpdates |-> IF r.updated THEN TRUE ELSE upd,
          stderr |-> log]

\* Mutant: the switch looks at hasUpdates before the errors.
SummaryMessageUpdatesFirst(errs, upd) ==
    IF upd
    THEN [header |-> "completed, see above", updates |-> <<>>, lines |-> <<>>]
    ELSE IF Len(errs) > 0
         THEN [header |-> "completed with errors", updates |-> <<>>, lines |-> errs]
         ELSE [header |-> "completed, nothing new", updates |-> <<>>, lines |-> <<>>]

\* sendSummary: the template is chosen by the switch; the message is sent
\* through a.notifier.
SummaryMessage(errs, upd) ==
    IF Len(errs) > 0
    THEN [header |-> "completed with errors", updates |-> <<>>, lines |-> errs]
    ELSE IF ~upd
         THEN [header |-> "completed, nothing new", updates |-> <<>>, lines |-> <<>>]
         ELSE [header |-> "completed, see above", updates |-> <<>>, lines |-> <<>>]

sendSummary(a, errs, upd, out) == Notify(a.notifier, SummaryMessage(errs, upd), out)


\* Mutant: the loop ends at the first error.
NextCheckerStopsOnError(i, r) == IF r.err # "" THEN 9 + 1 ELSE i + 1

\* for _, nc := range a.checkers: the index of the checker the loop turns to
\* after checker i returned r (every result, error or not, moves on by one).
NextChecker(i, r) == i + 1

\* Mutant: the summary is sent in every mode.
SkipsSummaryNever(a) == FALSE

\* if a.jsonMode { return nil }: Run returns before the summary
SkipsSummary(a) == a.jsonMode

\* Mutant: adapter errors make Run fail.
RunReturnsAdapterErrors(a, errs, sent) ==
    IF sent.err # "" THEN sent.err
    ELSE IF Len(errs) > 0 THEN "some checks failed" ELSE ""

\* What Run returns after the loop: sent is the result of sendSummary.
RunReturns(a, errs, sent) == IF sent.err # "" THEN sent.err ELSE ""

\* main: the exit status for the error Run returned (log.Fatalf, os.Exit(1))
ExitStatus(err) == IF err # "" THEN 1 ELSE 0

(***************************************************************************)
(* The environment: what the feeds and the sinks may answer                *)
(***************************************************************************)
Now0 == 14 * 24 * MinutesPerHour + 10 * MinutesPerHour

\* The text of form f a publisher in zone offset off writes for instant t.
Stamp(f, t, off) ==
    [form |-> f,
     wall |-> IF f = "date" THEN ((t + off) \div (24 * MinutesPerHour)) * (24 * MinutesPerHour)
              ELSE t + off,
     off |-> off]

Garbage == [form |-> "garbage", wall |-> 0, off |-> 0]

\* Texts of an instant `age` minutes before Now0.
Aged(age) == Stamp("iso_z", Now0 - age, 0)

Item(date, published, title, link) ==
    [date |-> date, published |-> published, title |-> title, tag |-> "v1", link |-> link]

Fetched(payload) == [net |-> TRUE, status |-> 200, read |-> TRUE, payload |-> payload]

Malformed == [malformed |-> TRUE, items |-> <<>>]
Feed(items) == [malformed |-> FALSE, items |-> items]

RecentItem == Item(Aged(2 * MinutesPerHour), EmptyDate, "t1", "https://a")
OldItem == Item(Aged(48 * MinutesPerHour), EmptyDate, "t1", "https://a")

\* Responses no fetch accepts: no connection, a status other than 200 (with
\* whatever body the server sent along), a body that cannot be read.
FetchFailures ==
    {[net |-> FALSE, status |-> 0, read |-> FALSE, payload |-> Malformed]}
    \cup {[net |-> TRUE, status |-> c, read |-> TRUE, payload |-> b] :
              c \in {204, 404, 500}, b \in {Malformed, Feed(<<RecentItem>>)}}
    \cup {[net |-> TRUE, status |-> 200, read |-> FALSE, payload |-> Feed(<<RecentItem>>)]}

SinkOK == [net |-> TRUE, status |-> 200, failAt |-> 0]

\* What the sink of notifier n may answer to one Notify.
SinkAnswers(n) ==
    IF n.kind = "json"
    THEN {[net |-> TRUE, status |-> 200, failAt |-> k] : k \in 0..MaxItems}
    ELSE {SinkOK,
          [net |-> TRUE, status |-> 500, failAt |-> 0],
          [net |-> FALSE, status |-> 0, failAt |-> 0]}

\* The feeds of a run: one item, old or recent.
RunItems == {RecentItem, OldItem}

RunResponses ==
    {[net |-> TRUE, status |-> 500, read |-> TRUE, payload |-> Malformed]}
    \cup {Fetched(Feed(<<it>>)) : it \in RunItems}

SinkDown == [net |-> FALSE, status |-> 0, failAt |-> 0]

\* During a run a webhook of `outage` refuses every POST; the other sinks
\* answer the adapters' notifications, and the summary's POST may still fail.
RunSinkAnswer(n) == IF n.url \in outage THEN SinkDown ELSE SinkOK

SummaryAnswers(n) ==
    IF n.url \in outage THEN {SinkDown}
    ELSE {SinkOK, [net |-> TRUE, status |-> 500, failAt |-> 0]}

\* HTTPClient.Do on a request built by http.NewRequestWithContext(ctx, ...):
\* once ctx is cancelled the call fails, whatever the server would answer.
DoWithContext(done, resp) ==
    IF done THEN [net |-> FALSE, status |-> 0, read |-> FALSE, payload |-> Malformed]
    ELSE resp

\* The sink's answer to Notify(ctx, message): SlackNotifier's POST carries
\* ctx, JSONNotifier.Notify and NotifyUpdate never read theirs.
SinkWithContext(n, done, out) ==
    IF n.kind = "slack" /\ done THEN SinkDown ELSE out

\* The sink is asked only when the check gets as far as Notify.
Notifies(nc, resp, clocks) ==
    Len(Check(nc, [resp |-> resp, clocks |-> clocks, out |-> SinkOK]).rendered) > 0

NoCheck == [name |-> "", kind |-> "", notifier |-> NewJSON,
            env |-> [resp |-> Fetched(NoData), clocks |-> <<>>, out |-> SinkOK],
            res |-> CheckResult(FALSE, "", <<>>, NoOutput, <<>>),
            ctx |-> [fetch |-> FALSE, send |-> FALSE]]

(***************************************************************************)
(* The run: main and App.Run                                               *)
(***************************************************************************)
Configs ==
    {[json |-> FALSE, main |-> "", sec |-> "", down |-> {}],
     [json |-> FALSE, main |-> "W", sec |-> "", down |-> {}],
     [json |-> FALSE, main |-> "W", sec |-> "W", down |-> {}],
     [json |-> FALSE, main |-> "W", sec |-> "S", down |-> {}],
     [json |-> FALSE, main |-> "W", sec |-> "S", down |-> {"S"}],
     [json |-> FALSE, main |-> "W", sec |-> "S", down |-> {"W"}],
     [json |-> TRUE, main |-> "", sec |-> "", down |-> {}]}

\* The goroutines that share one JSONNotifier.
Goroutines == {"g1", "g2", "g3"}

\* A goroutine outside NotifyUpdate that has completed `done` calls.
Idle == [at |-> "idle", done |-> 0, part |-> 0, err |-> ""]

InitRun(c) ==
    /\ jsonMode = c.json
    /\ webhookURL = c.main
    /\ securityWebhookURL = c.sec
    /\ outage = c.down
    /\ idx = 1
    /\ calls = <<>>
    /\ errors = <<>>
    /\ hasUpdates = FALSE
    /\ summary = <<>>
    /\ runErr = ""
    /\ exitCode = -1
    /\ stderr = <<>>
    /\ lastCheck = NoCheck
    /\ outcomes = [failed |-> <<>>, updated |-> FALSE, delivered |-> {}]
    /\ lab = [op |-> "none"]
    /\ mu = ""
    /\ writer = <<>>
    /\ callers = [g \in Goroutines |-> Idle]
    /\ ctxDone = FALSE

Init == \E c \in Configs : InitRun(c) /\ localTZ = "UTC" /\ pc = "start"

LogLine(line, name) == [line |-> line, name |-> name]

\* main up to app.Run: the webhook is required unless --json is given.
Start ==
    /\ pc = "start"
    /\ IF webhookURL = "" /\ ~jsonMode
       THEN /\ pc' = "exited"
            /\ exitCode' = 1
            /\ stderr' = Append(stderr, LogLine("SLACK_WEBHOOK_URL is not set", ""))
       ELSE /\ pc' = "loop"
            /\ exitCode' = exitCode
            /\ stderr' = IF jsonMode THEN stderr
                         ELSE Append(stderr, LogLine("Starting update watcher...", ""))
    /\ UNCHANGED <<cfgVars, outVars, idx, calls, errors, hasUpdates, summary, runErr, lastCheck, outcomes, lab>>

\* One iteration of App.Run's loop: the whole Check of checker idx.  With
\* fires, ctx is cancelled during this Check, after its fetch and before its
\* Notify.
RunCheckUnder(fires) ==
    /\ pc = "loop"
    /\ idx <= Len(app.checkers)
    /\ ctxDone' = (ctxDone \/ fires)
    /\ \E resp \in RunResponses :
          LET nc == app.checkers[idx]
              env == [resp |-> DoWithContext(ctxDone, resp), clocks |-> <<Now0>>,
                      out |-> SinkWithContext(nc.notifier, ctxDone \/ fires,
                                              RunSinkAnswer(nc.notifier))]
              r == Check(nc, env)
              st == RunStep(nc, r, errors, hasUpdates, stderr)
          IN  /\ calls' = Append(calls, nc.Name)
              /\ errors' = st.errors
              /\ hasUpdates' = st.hasUpdates
              /\ stderr' = st.stderr
              /\ lastCheck' = [name |-> nc.Name, kind |-> nc.kind, notifier |-> nc.notifier,
                               env |-> env, res |-> r,
                               ctx |-> [fetch |-> ctxDone, send |-> ctxDone \/ fires]]
              /\ idx' = NextChecker(idx, r)
              /\ outcomes' = [failed |-> IF r.err # ""
                                     THEN Append(outcomes.failed, [name |-> nc.Name, err |-> r.err])
                                     ELSE outcomes.failed,
                          updated |-> outcomes.updated \/ (r.err = "" /\ r.updated),
                          delivered |-> outcomes.delivered
                                        \cup {r.posts[p].to : p \in {q \in 1..Len(r.posts) :
                                                                        r.posts[q].status = 200}}]
    /\ UNCHANGED <<envVars, outVars, pc, summary, runErr, exitCode, lab>>

\* main passes context.Background(), which is never cancelled.
RunCheck == RunCheckUnder(FALSE)

\* App.Run after the loop: the summary, and the return.
RunReturn ==
    /\ pc = "loop"
    /\ idx > Len(app.checkers)
    /\ IF SkipsSummary(app)
       THEN /\ runErr' = ""
            /\ UNCHANGED <<summary, stderr>>
       ELSE \E out \in SummaryAnswers(app.notifier) :
               LET sent == sendSummary(app, errors, hasUpdates,
                                       SinkWithContext(app.notifier, ctxDone, out))
               IN  /\ summary' = Append(summary,
                                        [msg |-> SummaryMessage(errors, hasUpdates),
                                         posts |-> sent.posts, records |-> sent.records,
                                         err |-> sent.err])
                   /\ runErr' = RunReturns(app, errors, sent)
                   /\ stderr' = Append(stderr,
                                       IF sent.err # ""
                                       THEN LogLine("Failed to send summary", "")
                                       ELSE LogLine("Update watcher completed successfully", ""))
    /\ pc' = "returned"
    /\ UNCHANGED <<cfgVars, outVars, idx, calls, errors, hasUpdates, exitCode, lastCheck, outcomes, lab>>

\* main after app.Run returned.
Exit ==
    /\ pc = "returned"
    /\ exitCode' = ExitStatus(runErr)
    /\ stderr' = IF runErr = "" THEN stderr
                 ELSE Append(stderr, LogLine(IF jsonMode THEN "Error:" ELSE "Application failed", ""))
    /\ pc' = "exited"
    /\ UNCHANGED <<cfgVars, outVars, idx, calls, errors, hasUpdates, summary, runErr, lastCheck, outcomes, lab>>

Next == Start \/ RunCheck \/ RunReturn \/ Exit

Spec == Init /\ [][Next]_vars

(***************************************************************************)
(* App.Run called with a context its caller may cancel                     *)
(***************************************************************************)
CancelConfigs ==
    {[json |-> FALSE, main |-> "W", sec |-> "", down |-> {}],
     [json |-> FALSE, main |-> "W", sec |-> "S", down |-> {}],
     [json |-> TRUE, main |-> "", sec |-> "", down |-> {}]}

InitCancel == \E c \in CancelConfigs : InitRun(c) /\ localTZ = "UTC" /\ pc = "loop"

\* The caller cancels ctx between two steps of Run.
Cancel ==
    /\ pc = "loop"
    /\ ~ctxDone
    /\ ctxDone' = TRUE
    /\ UNCHANGED <<envVars, outVars, pc, idx, calls, errors, hasUpdates, summary, runErr,
                   exitCode, stderr, lastCheck, outcomes, lab>>

\* A Check whose ctx is done by the time it calls Notify: the caller cancels
\* between the fetch and the Notify unless ctx was done already.
RunCheckCancelled == RunCheckUnder(TRUE)

NextCancel == Cancel \/ RunCheck \/ RunCheckCancelled \/ RunReturn

SpecCancel == InitCancel /\ [][NextCancel]_vars


(***************************************************************************)
(* One Check on its own, over every answer of the feed and of the sink     *)
(***************************************************************************)
CheckDates ==
    {Aged(2 * MinutesPerHour), Aged(25 * MinutesPerHour - 1), Aged(25 * MinutesPerHour),
     Aged(48 * MinutesPerHour), Garbage, EmptyDate}

CheckItems ==
    {Item(d, EmptyDate, "t1", "https://a") : d \in CheckDates}
    \cup {Item(EmptyDate, Aged(2 * MinutesPerHour), "t2", "https://b"),
          Item(Aged(48 * MinutesPerHour), Aged(2 * MinutesPerHour), "t2", "https://b"),
          Item(EmptyDate, Aged(48 * MinutesPerHour), "t1", "https://a"),
          Item(Aged(2 * MinutesPerHour), Aged(48 * MinutesPerHour), "t1", "https://a"),
          Item(Aged(2 * MinutesPerHour), EmptyDate, "", "")}

Feeds == UNION {[1..k -> CheckItems] : k \in 0..MaxItems}

\* time.Now() read once per item: the readings never go back.
Ticks == {0, 1}
ClockSeqs(n) ==
    {c \in [1..n -> {Now0 + t : t \in Ticks}] : \A i \in 1..(n - 1) : c[i] <= c[i + 1]}

CheckResponses ==
    FetchFailures \cup {Fetched(Malformed)} \cup {Fetched(Feed(f)) : f \in Feeds}

CheckConfigs ==
    {[json |-> FALSE, main |-> "W", sec |-> "S", down |-> {}],
     [json |-> TRUE, main |-> "", sec |-> "", down |-> {}]}

InitCheck == \E c \in CheckConfigs : InitRun(c) /\ localTZ = "UTC" /\ pc = "check"

CheckOnce ==
    /\ pc = "check"
    /\ \E i \in 1..Len(app.checkers) :
       \E resp \in CheckResponses :
       \E clocks \in ClockSeqs(Len(resp.payload.items)) :
       \E out \in IF Notifies(app.checkers[i], resp, clocks)
                  THEN SinkAnswers(app.checkers[i].notifier) ELSE {SinkOK} :
          LET nc == app.checkers[i]
              env == [resp |-> resp, clocks |-> clocks, out |-> out]
          IN  lastCheck' = [name |-> nc.Name, kind |-> nc.kind, notifier |-> nc.notifier,
                            env |-> env, res |-> Check(nc, env)]
    /\ pc' = "checked"
    /\ UNCHANGED <<cfgVars, outVars, idx, calls, errors, hasUpdates, summary, runErr, exitCode,
                   stderr, outcomes, lab>>

SpecCheck == InitCheck /\ [][CheckOnce]_vars

(***************************************************************************)
(* The date recognizer on its own                                          *)
(***************************************************************************)
Ages == {0 - 60, 59, 60, 61, 120, 1439, 1440, 1441, 1499, 1500, 1501, 2880}
ZoneOffsets == {0 - 480, 540}
Hours == {1, 24, CheckPeriodHours}

DateTexts ==
    {Stamp(f, Now0 - a, o) : f \in {"iso_off", "rfc1123z", "rfc1123abbr"},
                             a \in Ages, o \in ZoneOffsets}
    \cup {Stamp(f, Now0 - a, 0) : f \in {"iso_z", "iso_frac", "iso_ms", "iso_bare", "date",
                                         "rfc1123gmt", "rfc822d1"},
                                  a \in Ages}
    \cup {Garbage, EmptyDate}

\* How long after the start of its run an IsRecent call may read time.Now():
\* at once, a minute later, or after the run's earlier requests have each
\* used up their HTTPTimeout of 30 s (nine minutes for eighteen of them).
RunDelays == Ticks \cup {9}

InitDate ==
    /\ InitRun([json |-> FALSE, main |-> "W", sec |-> "", down |-> {}])
    /\ localTZ \in {"UTC", "abbr"}
    /\ pc = "lab"

ApplyIsRecent ==
    /\ pc = "lab"
    /\ \E ts \in DateTexts, h \in Hours, t \in RunDelays :
          lab' = [op |-> "IsRecent", ts |-> ts, h |-> h, now |-> Now0 + t,
                  parsed |-> ParseDate(ts), recent |-> IsRecent(ts, h, Now0 + t)]
    /\ pc' = "applied"
    /\ UNCHANGED <<cfgVars, outVars, idx, calls, errors, hasUpdates, summary, runErr, exitCode,
                   stderr, lastCheck, outcomes>>

SpecDate == InitDate /\ [][ApplyIsRecent]_vars




(***************************************************************************)
(* TruncateText on its own                                                 *)
(***************************************************************************)
MaxChars == 4          \* characters of a text under test
TextChars == {"h", " ", "ja"}

CharSeqs(alphabet, n) == UNION {[1..k -> alphabet] : k \in 0..n}

HelloWorld == <<"h", "e", "l", "l", "o", " ", "w", "o", "r", "l", "d">>

\* The texts under test, as characters.
TruncateInputs == CharSeqs(TextChars, MaxChars) \cup {HelloWorld, <<"h", "i">>}

MaxLengths == {0, 1, 2, 3, 5}

InitText ==
    /\ InitRun([json |-> FALSE, main |-> "W", sec |-> "", down |-> {}])
    /\ localTZ = "UTC"
    /\ pc = "lab"

ApplyTruncateText ==
    /\ pc = "lab"
    /\ \E chars \in TruncateInputs, n \in MaxLengths :
          lab' = [op |-> "TruncateText", chars |-> chars, text |-> Encode(chars),
                  maxLength |-> n, result |-> TruncateText(Encode(chars), n)]
    /\ pc' = "applied"
    /\ UNCHANGED <<cfgVars, outVars, idx, calls, errors, hasUpdates, summary, runErr,
                   exitCode, stderr, lastCheck, outcomes>>

SpecTruncate == InitText /\ [][ApplyTruncateText]_vars

(***************************************************************************)
(* FormatMultilineText on its own                                          *)
(***************************************************************************)
MaxLineChars == 5      \* characters of a release body under test
LineChars == {"a", "ja", ".", "\n", "\r"}

\* config.MaxSummaryLength and config.MaxDescriptionLines, scaled to the
\* bodies under test
LineLengths == {2, 4}
LineLimits == {1, 2}

ApplyFormatMultilineText ==
    /\ pc = "lab"
    /\ \E chars \in CharSeqs(LineChars, MaxLineChars), n \in LineLengths, m \in LineLimits :
          lab' = [op |-> "FormatMultilineText", chars |-> chars, text |-> Encode(chars),
                  maxLength |-> n, maxLines |-> m,
                  result |-> FormatMultilineText(Encode(chars), n, m)]
    /\ pc' = "applied"
    /\ UNCHANGED <<cfgVars, outVars, idx, calls, errors, hasUpdates, summary, runErr,
                   exitCode, stderr, lastCheck, outcomes>>

SpecLines == InitText /\ [][ApplyFormatMultilineText]_vars


(***************************************************************************)
(* The markup strippers on their own                                       *)
(***************************************************************************)
MaxFrags == 3          \* fragments an HTML text under test is made of

HTMLFragments ==
    {EntLt, EntGt, EntAmp, EntQuot, <<"l", "t", ";">>, <<"b">>, <<" ">>, <<"\n">>,
     <<"<">>, <<">">>, CDataOpen, CDataClose, TagBr}

RECURSIVE Concat(_)
Concat(parts) == IF parts = <<>> THEN <<>> ELSE Head(parts) \o Concat(Tail(parts))

\* <p>A &amp; B</p>
ParagraphAB ==
    <<"<", "p", ">", "A", " ">> \o EntAmp \o <<" ", "B">> \o TagEndP

HTMLTexts == {Concat(f) : f \in CharSeqs(HTMLFragments, MaxFrags)} \cup {ParagraphAB}

Strippers == {"Cloudflare", "GCPSecurity", "AWS"}

\* A cleaner applied to a text, and again to its own output.
ApplyStripMarkup ==
    /\ pc = "lab"
    /\ \E impl \in Strippers, x \in HTMLTexts :
          LET once == StripMarkup(impl, x)
          IN  lab' = [op |-> "StripMarkup", impl |-> impl, x |-> x,
                      once |-> once, twice |-> StripMarkup(impl, once),
                      text |-> ScannerInput(impl, x),
                      scanned |-> StripTags(ScannerInput(impl, x), FALSE)]
    /\ pc' = "applied"
    /\ UNCHANGED <<cfgVars, outVars, idx, calls, errors, hasUpdates, summary, runErr,
                   exitCode, stderr, lastCheck, outcomes>>

SpecStrip == InitText /\ [][ApplyStripMarkup]_vars


(***************************************************************************)
(* extractCVEIDs on its own                                                *)
(***************************************************************************)
MaxCVEFrags == 4       \* fragments a text with CVE ids is made of

CVEId(digits) == <<"C", "V", "E", "-", "2", "0", "2", "4", "-">> \o digits

CVE1234 == CVEId(<<"1", "2", "3", "4">>)
CVE5678 == CVEId(<<"5", "6", "7", "8">>)
CVE9999 == CVEId(<<"9", "9", "9", "9">>)
CVE0001 == CVEId(<<"0", "0", "0", "1">>)

CVEFragments ==
    {CVE1234, CVE5678, CVE9999, CVE0001, <<" ">>, <<"5">>,
     <<"C", "V", "E", "-", "2", "0">>}

And == <<" ", "a", "n", "d", " ">>

\* "See CVE-2024-1234 and CVE-2024-5678 and CVE-2024-9999 and CVE-2024-0001"
FourCVEs ==
    <<"S", "e", "e", " ">> \o CVE1234 \o And \o CVE5678 \o And \o CVE9999 \o And \o CVE0001

CVETexts == {Concat(f) : f \in CharSeqs(CVEFragments, MaxCVEFrags)} \cup {FourCVEs}

ApplyExtractCVEIDs ==
    /\ pc = "lab"
    /\ \E x \in CVETexts :
          lab' = [op |-> "extractCVEIDs", x |-> x, matches |-> FindAllCVE(x, 1),
                  result |-> extractCVEIDs(x)]
    /\ pc' = "applied"
    /\ UNCHANGED <<cfgVars, outVars, idx, calls, errors, hasUpdates, summary, runErr,
                   exitCode, stderr, lastCheck, outcomes>>

SpecCVE == InitText /\ [][ApplyExtractCVEIDs]_vars


(***************************************************************************)
(* The CVSS tiers on their own                                             *)
(***************************************************************************)
(* extractSeverity on its own                                              *)
(***************************************************************************)
MaxSeverityFrags == 3  \* fragments a bulletin summary under test is made of

\* <td>keyword</td>, in the case given
Cell(word) == <<"<", "t", "d", ">">> \o word \o EndTd

SeverityFragments ==
    {Cell(Critical), Cell(<<"H", "I", "G", "H">>), Cell(Moderate), Cell(<<"M", "e", "d", "i", "u", "m">>), Cell(Low),
     Critical, Low, <<" ">>, <<">">>, <<"<">>, <<"<", "b", ">">>}

SeverityTexts == {Concat(f) : f \in CharSeqs(SeverityFragments, MaxSeverityFrags)}

ApplyExtractSeverity ==
    /\ pc = "lab"
    /\ \E x \in SeverityTexts :
          lab' = [op |-> "extractSeverity", x |-> x, result |-> extractSeverity(x)]
    /\ pc' = "applied"
    /\ UNCHANGED <<cfgVars, outVars, idx, calls, errors, hasUpdates, summary, runErr,
                   exitCode, stderr, lastCheck, outcomes>>

SpecSeverity == InitText /\ [][ApplyExtractSeverity]_vars


(***************************************************************************)
MaxMetrics == 2        \* entries of one CVSS version in a record

Metric(type, score, severity) ==
    [Type |-> type, BaseScore |-> score, BaseSeverity |-> severity]

\* The entries a record may hold for a version: every version has its own
\* scores, and within a version the Primary and the Secondary source rate
\* differently, so that a result shows the entry it came from.  Besides
\* complete entries there are entries without score and severity, with a
\* score only, and with a severity only.
MetricsV31 ==
    {Metric("Primary", 98, "CRITICAL"), Metric("Secondary", 81, "HIGH"),
     Metric("Secondary", 0, ""), Metric("Primary", 98, "")}
MetricsV30 ==
    {Metric("Primary", 75, "HIGH"), Metric("Secondary", 65, "MEDIUM"),
     Metric("Secondary", 0, ""), Metric("Primary", 0, "HIGH")}
MetricsV2 ==
    {Metric("Primary", 50, "MEDIUM"), Metric("Secondary", 35, "LOW"),
     Metric("Primary", 0, ""), Metric("Secondary", 35, "")}

ApplyCVSS ==
    /\ pc = "lab"
    /\ \E v31 \in CharSeqs(MetricsV31, MaxMetrics),
          v30 \in CharSeqs(MetricsV30, MaxMetrics),
          v2 \in CharSeqs(MetricsV2, MaxMetrics) :
          LET metrics == [V31 |-> v31, V30 |-> v30, V2 |-> v2]
          IN  lab' = [op |-> "CVSS", metrics |-> metrics,
                      severity |-> getSeverity(metrics), score |-> getCVSSScore(metrics)]
    /\ pc' = "applied"
    /\ UNCHANGED <<cfgVars, outVars, idx, calls, errors, hasUpdates, summary, runErr,
                   exitCode, stderr, lastCheck, outcomes>>

SpecCVSS == InitText /\ [][ApplyCVSS]_vars

(***************************************************************************)
(* JSONNotifier.NotifyUpdate called from several goroutines                *)
(*                                                                         *)
(* The writer is any io.Writer: one Write call copies the line piece by    *)
(* piece, and other goroutines may run between two pieces.  A piece is     *)
(* [by, call, part]: the goroutine, the number of its call, the position   *)
(* of the piece in the line.                                               *)
(***************************************************************************)
MaxCalls == 1          \* NotifyUpdate calls of one goroutine
LineParts == 2         \* pieces one Write copies a line in

\* Mutant: Lock never waits.
CanLockAlways(m) == TRUE

\* sync.Mutex.Lock returns once the mutex is free.
CanLock(m) == m = ""

\* j.mu.Lock()
Lock(g) ==
    /\ pc = "notify"
    /\ callers[g].at = "idle"
    /\ callers[g].done < MaxCalls
    /\ CanLock(mu)
    /\ mu' = g
    /\ callers' = [callers EXCEPT ![g].at = "marshal"]
    /\ UNCHANGED <<cfgVars, writer, pc, idx, calls, errors, hasUpdates, summary, runErr,
                   exitCode, stderr, lastCheck, outcomes, lab>>

\* data, err := json.Marshal(info): an UpdateInfo of strings always encodes.
Marshal(g) ==
    /\ pc = "notify"
    /\ callers[g].at = "marshal"
    /\ callers' = [callers EXCEPT ![g].at = "write", ![g].part = 0]
    /\ UNCHANGED <<cfgVars, mu, writer, pc, idx, calls, errors, hasUpdates, summary, runErr,
                   exitCode, stderr, lastCheck, outcomes, lab>>

\* fmt.Fprintln(j.writer, string(data)): the next piece of the line reaches
\* the writer, or the writer fails and Fprintln returns its error.
Write(g) ==
    /\ pc = "notify"
    /\ callers[g].at = "write"
    /\ \E ok \in BOOLEAN :
          IF ok
          THEN /\ writer' = Append(writer, [by |-> g, call |-> callers[g].done + 1,
                                            part |-> callers[g].part + 1])
               /\ callers' = [callers EXCEPT
                                ![g].part = @ + 1,
                                ![g].at = IF callers[g].part + 1 = LineParts
                                          THEN "return" ELSE "write"]
          ELSE /\ writer' = writer
               /\ callers' = [callers EXCEPT ![g].at = "return", ![g].err = "write failed"]
    /\ UNCHANGED <<cfgVars, mu, pc, idx, calls, errors, hasUpdates, summary, runErr,
                   exitCode, stderr, lastCheck, outcomes, lab>>

\* return err, running the deferred j.mu.Unlock()
Unlock(g) ==
    /\ pc = "notify"
    /\ callers[g].at = "return"
    /\ mu' = IF mu = g THEN "" ELSE mu
    /\ callers' = [callers EXCEPT ![g].at = "idle", ![g].done = @ + 1]
    /\ UNCHANGED <<cfgVars, writer, pc, idx, calls, errors, hasUpdates, summary, runErr,
                   exitCode, stderr, lastCheck, outcomes, lab>>

InitNotify ==
    /\ InitRun([json |-> TRUE, main |-> "", sec |-> "", down |-> {}])
    /\ localTZ = "UTC"
    /\ pc = "notify"

NextNotify == \E g \in Goroutines : Lock(g) \/ Marshal(g) \/ Write(g) \/ Unlock(g)

SpecNotify == InitNotify /\ [][NextNotify]_vars

(***************************************************************************)
(* Properties                                                              *)
(***************************************************************************)
\* App.Run ran to its return (a missing webhook ends main before Run).
RunEnded == pc = "returned" \/ (pc = "exited" /\ Len(calls) > 0)

\* The configured list: informational sources first, then security sources.
CheckerNames ==
    << "GCP Release Notes", "Go Releases", "Terraform Releases",
       "AWS Security Bulletins", "Cloudflare Security Blog", "GCP Security Bulletins",
       "Debian Security Advisories", "NVD CVE Database", "GitHub Security Advisories" >>

\* C1: the checkers are invoked one by one in the fixed order, each exactly
\* once by the time Run returns, whatever the earlier ones returned.
C1_EveryCheckerOnceInOrder ==
    /\ calls = SubSeq(CheckerNames, 1, Len(calls))
    /\ Len(calls) = idx - 1
    /\ (pc \in {"returned", "exited"} /\ Len(calls) > 0 => calls = CheckerNames)

C1_Witness ==
    /\ pc = "returned"
    /\ calls = CheckerNames
    /\ Len(outcomes.failed) >= 2
    /\ outcomes.failed[1].name = "GCP Release Notes"
    /\ outcomes.updated

\* C2: the summary's template is decided by what the checks returned: with
\* errors iff some check returned an error; nothing new iff none returned an
\* error and none reported updates; see above iff none returned an error
\* and some reported updates.
C2_SummaryTemplate ==
    \A k \in 1..Len(summary) :
        LET h == summary[k].msg.header
            anyError == Len(outcomes.failed) > 0
        IN  /\ h \in {"completed with errors", "completed, nothing new", "completed, see above"}
            /\ (h = "completed with errors") <=> anyError
            /\ (h = "completed, nothing new") <=> (~anyError /\ ~outcomes.updated)
            /\ (h = "completed, see above") <=> (~anyError /\ outcomes.updated)

C2_Witness ==
    /\ Len(summary) = 1
    /\ summary[1].msg.header = "completed with errors"
    /\ outcomes.updated
    /\ ~jsonMode

\* C3: a run in notification mode attempts exactly one summary, after the
\* last Check returned and never followed by another Check; a run in JSON
\* mode attempts none and writes no summary record.
C3_OneSummaryAfterAllChecks ==
    /\ [](/\ Len(summary) <= 1
          /\ (~jsonMode /\ RunEnded => Len(summary) = 1)
          /\ (Len(summary) > 0 => RunEnded /\ calls = CheckerNames /\ Len(summary[1].posts) = 1)
          /\ (jsonMode => summary = <<>>))
    /\ [][Len(summary) > 0 => calls' = calls /\ lastCheck' = lastCheck]_vars

C3_Witness ==
    /\ ~jsonMode
    /\ pc = "returned"
    /\ Len(summary) = 1
    /\ hasUpdates
    /\ lastCheck.name = "GitHub Security Advisories"
    /\ Len(lastCheck.res.posts) = 1

\* C4: the error list holds one entry per check that returned an error, in
\* order, with the failure marker, the checker's name and its error; and an
\* error changes nothing for the other checkers: hasUpdates is the OR of
\* what the error-free checks reported, and a checker whose feed has a
\* recent item and whose sink answers reports it, whatever failed before.
C4_OneErrorEntryPerFailure ==
    /\ Len(errors) = Len(outcomes.failed)
    /\ \A k \in 1..Len(errors) :
          /\ errors[k].marker = "cross mark"
          /\ errors[k].name = outcomes.failed[k].name
          /\ errors[k].err = outcomes.failed[k].err
    /\ hasUpdates = outcomes.updated
    /\ (/\ lastCheck.name # ""
        /\ lastCheck.env.resp = Fetched(Feed(<<RecentItem>>))
        /\ lastCheck.env.out = SinkOK
        => /\ lastCheck.res.updated
           /\ lastCheck.res.err = ""
           /\ hasUpdates
           /\ (~jsonMode => Len(lastCheck.res.posts) = 1))

C4_Witness ==
    /\ pc = "returned"
    /\ Len(errors) = 1
    /\ errors[1].name = "GCP Release Notes"
    /\ errors[1].err = "failed to fetch GCP RSS: unexpected status code: 500"
    /\ hasUpdates
    /\ lastCheck.res.updated

\* What the properties of one Check read off lastCheck.
Checked == lastCheck.name # ""
FetchFails ==
    \/ ~lastCheck.env.resp.net
    \/ ~lastCheck.env.resp.read
    \/ lastCheck.env.resp.status \notin 200..299
Delivered ==
    /\ lastCheck.env.resp.net
    /\ lastCheck.env.resp.read
    /\ lastCheck.env.resp.status = 200
DecodeFails == Delivered /\ lastCheck.env.resp.payload.malformed
Decoded == Delivered /\ ~lastCheck.env.resp.payload.malformed
NoOutputAtAll == lastCheck.res.posts = <<>> /\ lastCheck.res.records = <<>>

\* The timestamp an item is judged by: an Atom entry's updated, else published.
TimestampOf(kind, item) ==
    IF kind \in {"GCP", "GCPSecurity"} /\ item.date.form = "empty"
    THEN item.published ELSE item.date

\* The item's timestamp parses and is less than 25 hours before now.
InWindow(kind, item, now) ==
    LET p == ParseDate(TimestampOf(kind, item))
    IN  p.ok /\ now - p.t < 25 * 60

\* The positions of the decoded items that are in the window when judged.
Qualifying ==
    LET items == lastCheck.env.resp.payload.items
    IN  SelectSeq([i \in 1..Len(items) |-> i],
                  LAMBDA i : InWindow(lastCheck.kind, items[i], lastCheck.env.clocks[i]))

\* C5: a failed fetch (no connection, unreadable body, non-2xx status) or a
\* payload that does not decode makes Check return (false, error) without
\* any notification or record.
C5_FetchOrDecodeFailureAborts ==
    Checked /\ (FetchFails \/ DecodeFails)
    => /\ lastCheck.res.updated = FALSE
       /\ lastCheck.res.err # ""
       /\ NoOutputAtAll

C5_Witness ==
    /\ Checked
    /\ lastCheck.kind = "GCP"
    /\ lastCheck.env.resp.status = 500
    /\ lastCheck.env.resp.payload = Feed(<<RecentItem>>)
    /\ lastCheck.res.err = "failed to fetch GCP RSS: unexpected status code: 500"

\* C6: fetch and decode succeed and no item is in the window: Check returns
\* (false, nil) and there is no output.
C6_NothingRecentNoOutput ==
    Checked /\ Decoded /\ Qualifying = <<>>
    => /\ lastCheck.res.updated = FALSE
       /\ lastCheck.res.err = ""
       /\ NoOutputAtAll

C6_Witness ==
    /\ Checked /\ Decoded
    /\ lastCheck.kind = "NVD"
    /\ Len(lastCheck.env.resp.payload.items) = 2
    /\ Qualifying = <<>>
    /\ lastCheck.res.err = ""

AtomPublished(age) == Item(EmptyDate, Aged(age), IF age = 120 THEN "t2" ELSE "t1",
                           IF age = 120 THEN "https://b" ELSE "https://a")

\* C7: the rendered updates are exactly the decoded items whose timestamp
\* parses and lies less than 25 hours before now, in feed order; an Atom
\* feed with a 2-hour-old and a 48-hour-old entry yields one update and
\* had_updates = true, the 48-hour-old entry alone none and no output.
C7_RenderedAreExactlyTheRecent ==
    Checked /\ Decoded
    => LET items == lastCheck.env.resp.payload.items
           r == lastCheck.res
       IN  /\ Len(r.rendered) = Len(Qualifying)
           /\ \A k \in 1..Len(Qualifying) :
                 IF lastCheck.kind = "NVD"
                 THEN r.rendered[k].title = items[Qualifying[k]].title
                 ELSE r.rendered[k].link = items[Qualifying[k]].link
           /\ (items = <<AtomPublished(120), AtomPublished(2880)>>
               /\ lastCheck.kind \in {"GCP", "GCPSecurity"} /\ lastCheck.env.out = SinkOK
               => Len(r.rendered) = 1 /\ r.updated = TRUE)
           /\ (items = <<AtomPublished(2880)>> /\ lastCheck.kind \in {"GCP", "GCPSecurity"}
               => r.rendered = <<>> /\ r.updated = FALSE /\ NoOutputAtAll)

C7_Witness ==
    /\ Checked /\ Decoded
    /\ lastCheck.kind = "GCP"
    /\ lastCheck.env.resp.payload.items = <<AtomPublished(120), AtomPublished(2880)>>
    /\ Len(lastCheck.res.rendered) = 1
    /\ lastCheck.res.updated

\* C8: IsRecent is true iff the text parses and now minus the parsed
\* instant is less than h hours; exactly h hours old is not recent; for
\* h = 25, 25h01m old is not recent and 24h59m old is.
C8_IsRecentStrictWindow ==
    lab.op = "IsRecent"
    => /\ lab.recent <=> (lab.parsed.ok /\ lab.now - lab.parsed.t < lab.h * 60)
       /\ (lab.parsed.ok /\ lab.now - lab.parsed.t = lab.h * 60 => ~lab.recent)
       /\ (lab.ts = Aged(1501) /\ lab.h = 25 /\ lab.now = Now0 => ~lab.recent)
       /\ (lab.ts = Aged(1499) /\ lab.h = 25 /\ lab.now = Now0 => lab.recent)

C8_Witness ==
    /\ lab.op = "IsRecent"
    /\ lab.ts = Aged(1500)
    /\ lab.h = 25
    /\ lab.now = Now0
    /\ lab.parsed.ok
    /\ ~lab.recent

\* The decoded feed holds an item whose timestamp no layout parses.
HasBadDate ==
    \E i \in 1..Len(lastCheck.env.resp.payload.items) :
        ~ParseDate(TimestampOf(lastCheck.kind, lastCheck.env.resp.payload.items[i])).ok

\* C9: an unparseable timestamp drops its item and nothing else: the check
\* fails only if the sink fails, the other items are filtered as usual, and
\* with an answering sink the recent ones are notified.
C9_BadDateIsDroppedNotFatal ==
    Checked /\ Decoded /\ HasBadDate
    => LET r == lastCheck.res
       IN  /\ Len(r.rendered) = Len(Qualifying)
           /\ (r.err # "" => lastCheck.env.out # SinkOK /\ Len(Qualifying) > 0)
           /\ (lastCheck.env.out = SinkOK
               => /\ r.err = ""
                  /\ r.updated <=> (Len(Qualifying) > 0)
                  /\ (lastCheck.notifier.kind = "slack" /\ Len(Qualifying) > 0
                      => Len(r.posts) = 1 /\ r.posts[1].msg.updates = r.rendered))

C9_Witness ==
    /\ Checked /\ Decoded
    /\ lastCheck.kind = "Debian"
    /\ lastCheck.env.resp.payload.items = <<Item(Garbage, EmptyDate, "t1", "https://a"), RecentItem>>
    /\ lastCheck.res.updated
    /\ Len(lastCheck.res.rendered) = 1
    /\ Len(lastCheck.res.posts) = 1

\* C10: in notification mode Run returns an error, and the process exits
\* non-zero, iff the summary could not be sent; adapter errors do not count.
C10_RunFailsIffSummaryFails ==
    ~jsonMode /\ RunEnded
    => LET summaryFailed == Len(summary) > 0 /\ summary[Len(summary)].err # ""
       IN  /\ (runErr # "") <=> summaryFailed
           /\ (pc = "exited" => ((exitCode # 0) <=> summaryFailed))

C10_Witness ==
    /\ ~jsonMode
    /\ pc = "exited"
    /\ Len(errors) = 9
    /\ Len(summary) = 1
    /\ summary[1].err = ""
    /\ exitCode = 0


\* C11: a run in JSON mode in which some checker returned an error exits
\* with a non-zero status.
C11_JSONExitsNonZeroOnAdapterError ==
    jsonMode /\ pc = "exited" /\ Len(outcomes.failed) > 0 => exitCode # 0

\* The diagnostic lines that report the error of the last check: those Run
\* wrote to stderr and those the Check itself logged.
ErrorReports ==
    {i \in 1..Len(stderr) :
        stderr[i].name = lastCheck.name /\ stderr[i].line = "Error checking"}
    \cup {j \in 1..Len(lastCheck.res.log) : lastCheck.res.log[j] = "Error checking"}

\* C12: in JSON mode the error a checker returns is reported on stderr, and
\* a check that fails at the fetch or the decode writes nothing to stdout.
C12_JSONErrorsGoToStderr ==
    jsonMode /\ Checked /\ lastCheck.res.err # ""
    => /\ ErrorReports # {}
       /\ (FetchFails \/ DecodeFails => lastCheck.res.records = <<>>)

\* C13: in JSON mode a check whose filter keeps N items writes N records.
C13_JSONOneRecordPerUpdate ==
    /\ Checked /\ Decoded
    /\ lastCheck.notifier.kind = "json"
    /\ lastCheck.env.out = SinkOK
    => Len(lastCheck.res.records) = Len(Qualifying)

\* The title the rendered update with this link was given.
RenderedTitles(link) ==
    {lastCheck.res.rendered[i].title :
        i \in {j \in 1..Len(lastCheck.res.rendered) : lastCheck.res.rendered[j].link = link}}

\* C14: in JSON mode every record carries the title of the rendered update
\* whose link is the record's url.
C14_JSONRecordCarriesItsTitle ==
    /\ Checked /\ Decoded
    /\ lastCheck.notifier.kind = "json"
    => \A k \in 1..Len(lastCheck.res.records) :
          LET rec == lastCheck.res.records[k]
          IN  RenderedTitles(rec.url) # {} => rec.title \in RenderedTitles(rec.url)


\* C15: whatever the interleaving of the goroutines calling NotifyUpdate on
\* one notifier, the pieces of one record's line are never separated by a
\* piece of another record: every later piece of a line directly follows
\* the piece before it.
C15_RecordsNeverInterleave ==
    \A i \in 1..Len(writer) :
        writer[i].part > 1
        => /\ i > 1
           /\ writer[i - 1] = [by |-> writer[i].by, call |-> writer[i].call,
                               part |-> writer[i].part - 1]

C15_Witness ==
    /\ Len(writer) = 3 * LineParts
    /\ \A g \in Goroutines : callers[g].done = 1 /\ callers[g].err = ""
    /\ writer[1].by = "g3"


RECURSIVE TrimChars(_)
\* The characters of a text without the surrounding whitespace.
TrimChars(chars) ==
    IF chars = <<>> THEN <<>>
    ELSE IF IsSpace(Head(chars)) THEN TrimChars(Tail(chars))
    ELSE IF IsSpace(chars[Len(chars)]) THEN TrimChars(SubSeq(chars, 1, Len(chars) - 1))
    ELSE chars

\* C16 as stated: TruncateText returns the trimmed text unchanged when it
\* has at most max_len characters, and otherwise its first max_len
\* characters followed by "...".
C16_TruncateCountsCharacters ==
    lab.op = "TruncateText"
    => LET t == TrimChars(lab.chars)
       IN  lab.result = IF Len(t) <= lab.maxLength
                        THEN Encode(t)
                        ELSE Encode(SubSeq(t, 1, lab.maxLength)) \o Encode(<<".", ".", ".">>)

\* C16 amended: TruncateText returns the trimmed text unchanged when it is
\* at most max_len bytes long, and otherwise its first max_len bytes
\* followed by "..."; truncate("hello world", 5) = "hello..." and
\* truncate("hi", 5) = "hi".
C16_TruncateCountsBytes ==
    lab.op = "TruncateText"
    => LET t == Encode(TrimChars(lab.chars))
           n == lab.maxLength
       IN  /\ (Len(t) <= n => lab.result = t)
           /\ (Len(t) > n
               => /\ Len(lab.result) = n + 3
                  /\ \A i \in 1..n : lab.result[i] = t[i]
                  /\ \A i \in (n + 1)..(n + 3) : lab.result[i] = ".")
           /\ (lab.chars = HelloWorld /\ n = 5
               => lab.result = <<"h", "e", "l", "l", "o", ".", ".", ".">>)
           /\ (lab.chars = <<"h", "i">> /\ n = 5 => lab.result = <<"h", "i">>)

C16_Witness ==
    /\ lab.op = "TruncateText"
    /\ lab.chars = <<" ", "ja", "ja">>
    /\ lab.maxLength = 5
    /\ lab.result = <<"ja/1", "ja/2", "ja/3", "ja/1", "ja/2", ".", ".", ".">>

\* The text holds none of the characters cs.
Without(text, cs) == \A i \in 1..Len(text) : text[i] \notin cs

\* C17 as stated: on input without '<' and '>' stripping twice gives what
\* stripping once gives, for each cleaner.
C17_StripIdempotentWithoutTags ==
    lab.op = "StripMarkup" /\ Without(lab.x, {"<", ">"}) => lab.twice = lab.once

\* C17 amended: on input without '<', '>' and '&' (no tags and no entity
\* references) stripping twice gives what stripping once gives, for each
\* cleaner.
C17_StripIdempotentWithoutMarkup ==
    lab.op = "StripMarkup" /\ Without(lab.x, {"<", ">", "&"}) => lab.twice = lab.once

C17_Witness ==
    /\ lab.op = "StripMarkup"
    /\ lab.impl = "GCPSecurity"
    /\ lab.x = <<"b", "\n", "b">>
    /\ lab.once = <<"b", " ", "b">>
    /\ lab.twice = lab.once

\* CVE- + 4 digits + - + 4 to 7 digits
WellFormedCVE(id) ==
    /\ Len(id) \in 13..16
    /\ SubSeq(id, 1, 4) = <<"C", "V", "E", "-">>
    /\ \A k \in 5..8 : IsDigit(id[k])
    /\ id[9] = "-"
    /\ \A k \in 10..Len(id) : IsDigit(id[k])

\* The position of the first match equal to id.
FirstMatch(id) ==
    CHOOSE i \in 1..Len(lab.matches) :
        lab.matches[i] = id /\ \A j \in 1..(i - 1) : lab.matches[j] # id

\* C18: extractCVEIDs returns at most 3 identifiers, all distinct and well
\* formed, and they are the first distinct matches in order of first
\* occurrence; a text with four distinct ids returns the first three.
C18_FirstThreeDistinctCVEs ==
    lab.op = "extractCVEIDs"
    => LET r == lab.result
           found == Range(lab.matches)
       IN  /\ Len(r) <= 3
           /\ Len(r) = IF Cardinality(found) > 3 THEN 3 ELSE Cardinality(found)
           /\ \A i, j \in 1..Len(r) : i # j => r[i] # r[j]
           /\ \A i \in 1..Len(r) : WellFormedCVE(r[i]) /\ r[i] \in found
           /\ \A i \in 2..Len(r) : FirstMatch(r[i - 1]) < FirstMatch(r[i])
           /\ \A id \in found :
                 id \notin Range(r) => \A i \in 1..Len(r) : FirstMatch(r[i]) < FirstMatch(id)
           /\ (lab.x = FourCVEs => r = <<CVE1234, CVE5678, CVE9999>>)

C18_Witness ==
    /\ lab.op = "extractCVEIDs"
    /\ lab.x = CVE5678 \o CVE5678 \o CVE1234 \o <<"5">>
    /\ lab.result = <<CVE5678, CVE1234 \o <<"5">>>>

\* The severities a version offers: those of its Primary entries and of
\* its first entry, when not empty.
UsableSeverities(list) ==
    {list[i].BaseSeverity :
        i \in {j \in 1..Len(list) :
                  (list[j].Type = "Primary" \/ j = 1) /\ list[j].BaseSeverity # ""}}

\* The scores a version offers: those of its Primary entries and of its
\* first entry, when positive.
UsableScores(list) ==
    {list[i].BaseScore :
        i \in {j \in 1..Len(list) :
                  (list[j].Type = "Primary" \/ j = 1) /\ list[j].BaseScore > 0}}

\* C19: the severity comes from the newest version (v3.1, v3.0, v2) that
\* offers one and never from an older one, and is UNKNOWN when no version
\* offers one; the same for the score, which is 0 when no version offers
\* one.  A v3.1 Primary entry 9.8/CRITICAL with a v2 entry of score 5.0
\* gives 9.8 and CRITICAL.
C19_NewestCVSSVersionWins ==
    lab.op = "CVSS"
    => LET m == lab.metrics
           sev == IF UsableSeverities(m.V31) # {} THEN UsableSeverities(m.V31)
                  ELSE IF UsableSeverities(m.V30) # {} THEN UsableSeverities(m.V30)
                  ELSE IF UsableSeverities(m.V2) # {} THEN UsableSeverities(m.V2)
                  ELSE {"UNKNOWN"}
           score == IF UsableScores(m.V31) # {} THEN UsableScores(m.V31)
                    ELSE IF UsableScores(m.V30) # {} THEN UsableScores(m.V30)
                    ELSE IF UsableScores(m.V2) # {} THEN UsableScores(m.V2)
                    ELSE {0}
       IN  /\ lab.severity \in sev
           /\ lab.score \in score
           /\ (/\ m.V31 = <<Metric("Primary", 98, "CRITICAL")>>
               /\ \E i \in 1..Len(m.V2) : m.V2[i].BaseScore = 50
               => lab.score = 98 /\ lab.severity = "CRITICAL")

C19_Witness ==
    /\ lab.op = "CVSS"
    /\ lab.metrics.V31 = <<Metric("Primary", 98, "CRITICAL")>>
    /\ lab.metrics.V30 = <<>>
    /\ lab.metrics.V2 = <<Metric("Primary", 50, "MEDIUM")>>
    /\ lab.score = 98
    /\ lab.severity = "CRITICAL"

\* A record whose v3.1 entry has a score but no severity: the score is the
\* v3.1 one and the severity the v2 one.
MixedVersions ==
    /\ lab.op = "CVSS"
    /\ lab.metrics.V31 = <<Metric("Primary", 98, "")>>
    /\ lab.metrics.V2 = <<Metric("Primary", 50, "MEDIUM")>>
    /\ lab.score = 98
    /\ lab.severity = "MEDIUM"

SecurityCheckers ==
    {"AWS Security Bulletins", "Cloudflare Security Blog", "GCP Security Bulletins",
     "Debian Security Advisories", "NVD CVE Database", "GitHub Security Advisories"}

\* The webhook the claim sends the notifications of checker name to.
WebhookOf(name) ==
    IF /\ securityWebhookURL # ""
       /\ securityWebhookURL # webhookURL
       /\ name \in SecurityCheckers
    THEN securityWebhookURL
    ELSE webhookURL

\* C20: in notification mode every POST of a security checker goes to the
\* security webhook when one is set and differs from the main webhook, and
\* every other POST of the run, the summary included, to the main webhook.
C20_WebhookRouting ==
    ~jsonMode
    => /\ \A k \in 1..Len(lastCheck.res.posts) :
             lastCheck.res.posts[k].to = WebhookOf(lastCheck.name)
       /\ \A s \in 1..Len(summary) : \A k \in 1..Len(summary[s].posts) :
             summary[s].posts[k].to = webhookURL

C20_Witness ==
    /\ ~jsonMode
    /\ webhookURL = "W"
    /\ securityWebhookURL = "S"
    /\ lastCheck.name = "GitHub Security Advisories"
    /\ Len(lastCheck.res.posts) = 1
    /\ lastCheck.res.posts[1].to = "S"
    /\ Len(summary) = 1
    /\ summary[1].posts[1].to = "W"

\* C21: no update with an empty link is emitted: every update of every
\* message posted to a webhook has a non-empty link, and every JSON record
\* written has a non-empty url.
C21_NoEmptyURLEmitted ==
    Checked
    => /\ \A p \in 1..Len(lastCheck.res.posts) :
             \A u \in 1..Len(lastCheck.res.posts[p].msg.updates) :
                lastCheck.res.posts[p].msg.updates[u].link # ""
       /\ \A k \in 1..Len(lastCheck.res.records) : lastCheck.res.records[k].url # ""

\* The rendered update at position k of the last check reached the sink: it
\* is in a message a webhook accepted, or a record with its link was written.
Reached(k) ==
    \/ \E p \in 1..Len(lastCheck.res.posts) :
          /\ lastCheck.res.posts[p].status = 200
          /\ k \in 1..Len(lastCheck.res.posts[p].msg.updates)
    \/ \E j \in 1..Len(lastCheck.res.records) :
          lastCheck.res.records[j].url = lastCheck.res.rendered[k].link

\* C22: a check with qualifying updates ends either with all of them
\* delivered and (true, nil), or with (false, error) and none delivered.
C22_DeliveryAllOrNothing ==
    Checked /\ Decoded /\ Qualifying # <<>>
    => LET r == lastCheck.res
       IN  \/ r.updated /\ r.err = "" /\ \A k \in 1..Len(r.rendered) : Reached(k)
           \/ ~r.updated /\ r.err # "" /\ \A k \in 1..Len(r.rendered) : ~Reached(k)

\* The output the last check delivered: a message a webhook accepted, or a
\* record written.
DeliveredOutput ==
    \/ \E p \in 1..Len(lastCheck.res.posts) : lastCheck.res.posts[p].status = 200
    \/ lastCheck.res.records # <<>>

\* C23: once the context passed to Run is cancelled, no Check delivers a
\* notification or a record any more, every Check started afterwards returns
\* an error, and Run returns an error to its caller.
C23_CancellationStopsTheRun ==
    /\ Checked /\ lastCheck.ctx.send => ~DeliveredOutput
    /\ Checked /\ lastCheck.ctx.fetch => lastCheck.res.err # ""
    /\ pc = "returned" /\ ctxDone => runErr # ""

\* Position i of text lies in a tag span: after a '<' that no '>' has closed.
InSpan(text, i) ==
    \E j \in 1..(i - 1) : text[j] = "<" /\ \A k \in (j + 1)..(i - 1) : text[k] # ">"

\* The positions of text the scanner is to keep.
KeptPositions(text) ==
    SelectSeq([i \in 1..Len(text) |-> i],
              LAMBDA i : text[i] \notin {"<", ">"} /\ ~InSpan(text, i))

\* text without its white space
Solid(text) == SelectSeq(text, LAMBDA c : ~IsSpace(c))

IsPrefix(a, b) == Len(a) <= Len(b) /\ SubSeq(b, 1, Len(a)) = a

\* C24: the scanner runs on the entity-decoded text; it keeps, in order,
\* exactly the characters other than '<' and '>' that lie outside every span
\* from a '<' to the next '>', so nothing after an unclosed '<' is kept; the
\* cleaner's result contains neither '<' nor '>' and differs from the
\* scanner's output in white space only (AWS: and in the lines beyond the
\* second); "<p>A &amp; B</p>" gives "A & B".
C24_ScannerDropsTagSpans ==
    lab.op = "StripMarkup"
    => LET kept == KeptPositions(lab.text)
       IN  /\ lab.scanned = [k \in 1..Len(kept) |-> lab.text[kept[k]]]
           /\ \A j \in 1..Len(lab.text) :
                 lab.text[j] = "<" /\ (\A k \in (j + 1)..Len(lab.text) : lab.text[k] # ">")
                 => \A k \in 1..Len(kept) : kept[k] < j
           /\ Without(lab.scanned, {"<", ">"})
           /\ Without(lab.once, {"<", ">"})
           /\ IsPrefix(Solid(lab.once), Solid(lab.scanned))
           /\ (lab.impl # "AWS" => Solid(lab.once) = Solid(lab.scanned))
           /\ (lab.x = <<"&", "l", "t", ";", "b", "&", "g", "t", ";">> => lab.once = <<>>)
           /\ (lab.x = ParagraphAB => lab.once = <<"A", " ", "&", " ", "B">>)

C24_Witness ==
    /\ lab.op = "StripMarkup"
    /\ lab.impl = "Cloudflare"
    /\ lab.x = ParagraphAB
    /\ lab.text = <<"<", "p", ">", "A", " ", "&", " ", "B", "<", "/", "p", ">">>
    /\ lab.once = <<"A", " ", "&", " ", "B">>

\* Two characters that are the same letter in either case, or equal.
SameLetter(a, b) ==
    a = b \/ \E k \in 1..Len(Uppers) : {a, b} = {Uppers[k], Lowers[k]}

\* The keyword of rank k stands between '>' and '<' somewhere in text, in
\* any mix of cases.
Bracketed(k, text) ==
    LET pat == <<">">> \o severities[k] \o <<"<">>
    IN  \E i \in 1..(Len(text) - Len(pat) + 1) :
           \A j \in 1..Len(pat) : SameLetter(text[i + j - 1], pat[j])

\* C25: extractSeverity returns the keyword of best rank in the list
\* critical, high, moderate, medium, low among those that occur as >keyword<
\* in the text, whatever their case and wherever they stand (>low< before
\* >critical< gives critical), and unknown when none occurs in that form,
\* also when keywords occur as prose.
C25_SeverityByKeywordPriority ==
    lab.op = "extractSeverity"
    => LET found == {k \in 1..Len(severities) : Bracketed(k, lab.x)}
       IN  /\ found = {} => lab.result = Unknown
           /\ found # {}
              => lab.result = severities[CHOOSE k \in found : \A m \in found : k <= m]
           /\ lab.x = Cell(Low) \o <<" ">> \o Cell(Critical) => lab.result = Critical
           /\ lab.x = Critical \o <<" ">> \o Low => lab.result = Unknown

C25_Witness ==
    /\ lab.op = "extractSeverity"
    /\ lab.x = Cell(Low) \o <<" ">> \o Cell(Critical)
    /\ lab.result = Critical

\* The version the severity lookup settles on: the newest that offers one.
SeverityVersion(m) ==
    IF UsableSeverities(m.V31) # {} THEN m.V31
    ELSE IF UsableSeverities(m.V30) # {} THEN m.V30
    ELSE IF UsableSeverities(m.V2) # {} THEN m.V2
    ELSE <<>>

\* The version the score lookup settles on.
ScoreVersion(m) ==
    IF UsableScores(m.V31) # {} THEN m.V31
    ELSE IF UsableScores(m.V30) # {} THEN m.V30
    ELSE IF UsableScores(m.V2) # {} THEN m.V2
    ELSE <<>>

\* The positions of list tagged Primary.
Tagged(list) == {i \in 1..Len(list) : list[i].Type = "Primary"}

\* C26: within the version the lookup settles on, the value returned is that
\* of the first Primary entry carrying one, wherever it stands and whatever
\* the non-Primary entries carry, and that of the first entry when no entry
\* of the version is tagged Primary; for the severity and for the score.
C26_PrimaryEntryPreferred ==
    lab.op = "CVSS"
    => LET sv == SeverityVersion(lab.metrics)
           cv == ScoreVersion(lab.metrics)
           withSeverity == {i \in Tagged(sv) : sv[i].BaseSeverity # ""}
           withScore == {i \in Tagged(cv) : cv[i].BaseScore > 0}
       IN  /\ withSeverity # {}
              => lab.severity = sv[CHOOSE i \in withSeverity : \A j \in withSeverity : i <= j].BaseSeverity
           /\ sv # <<>> /\ Tagged(sv) = {} => lab.severity = sv[1].BaseSeverity
           /\ withScore # {}
              => lab.score = cv[CHOOSE i \in withScore : \A j \in withScore : i <= j].BaseScore
           /\ cv # <<>> /\ Tagged(cv) = {} => lab.score = cv[1].BaseScore

C26_Witness ==
    /\ lab.op = "CVSS"
    /\ lab.metrics.V31 = <<Metric("Secondary", 81, "HIGH"), Metric("Primary", 98, "CRITICAL")>>
    /\ lab.severity = "CRITICAL"
    /\ lab.score = 98

\* text with every "\r" that a "\n" directly follows taken out
WithoutCR(text) ==
    LET keep == SelectSeq([i \in 1..Len(text) |-> i],
                          LAMBDA i : ~(text[i] = "\r" /\ i < Len(text) /\ text[i + 1] = "\n"))
    IN  [k \in 1..Len(keep) |-> text[keep[k]]]

\* The positions of the line feeds of text, in order.
LineFeeds(text) == SelectSeq([i \in 1..Len(text) |-> i], LAMBDA i : text[i] = "\n")

LineCount(text) == Len(LineFeeds(text)) + 1

\* The first m lines of a text of more than m lines, with the line feeds
\* between them.
FirstLines(text, m) == SubSeq(text, 1, LineFeeds(text)[m] - 1)

EndsWith(text, tail) ==
    Len(text) >= Len(tail) /\ SubSeq(text, Len(text) - Len(tail) + 1, Len(text)) = tail

\* What the two steps give when the cut leaves `cut` (marker included).
LimitedLines(cut, m) ==
    IF LineCount(WithoutCR(cut)) > m
    THEN FirstLines(WithoutCR(cut), m) \o Ellipsis
    ELSE WithoutCR(cut)

\* C27 as stated: the trimmed text is cut to max_len characters plus "..."
\* when it has more characters, CRLF becomes LF, and a text of more than
\* max_lines lines is replaced by its first max_lines lines plus "..."; the
\* result has at most max_lines lines and does not end with "......".
C27_LimitLinesCountsCharacters ==
    lab.op = "FormatMultilineText"
    => LET t == TrimChars(lab.chars)
           cut == IF Len(t) > lab.maxLength
                  THEN Encode(SubSeq(t, 1, lab.maxLength)) \o Ellipsis ELSE Encode(t)
       IN  /\ lab.result = LimitedLines(cut, lab.maxLines)
           /\ LineCount(lab.result) <= lab.maxLines
           /\ ~EndsWith(lab.result, Ellipsis \o Ellipsis)

\* C27 amended: the trimmed text is cut to max_len bytes plus "..." when it
\* is longer than max_len bytes, CRLF becomes LF, and a text of more than
\* max_lines lines is replaced by its first max_lines lines plus "..."; the
\* result has at most max_lines lines, and the function never puts two
\* markers at the end: when both steps apply, the marker of the cut is in a
\* dropped line.
C27_LimitLinesCountsBytes ==
    lab.op = "FormatMultilineText"
    => LET t == Encode(TrimChars(lab.chars))
           long == Len(t) > lab.maxLength
           head == SubSeq(t, 1, lab.maxLength)
           cut == IF long THEN head \o Ellipsis ELSE t
       IN  /\ lab.result = LimitedLines(cut, lab.maxLines)
           /\ LineCount(lab.result) <= lab.maxLines
           /\ long /\ LineCount(WithoutCR(cut)) > lab.maxLines
              => lab.result = FirstLines(WithoutCR(head), lab.maxLines) \o Ellipsis

\* A body cut to 4 bytes inside its third line, then limited to 2 lines.
C27_Witness ==
    /\ lab.op = "FormatMultilineText"
    /\ lab.chars = <<"a", "\r", "\n", "\n", "a">>
    /\ lab.maxLength = 4
    /\ lab.maxLines = 2
    /\ lab.result = <<"a", "\n", ".", ".", ".">>

AtomKinds == {"GCP", "GCPSecurity"}

\* An Atom entry updated `updated` and published `published` minutes ago.
AtomEntry(updated, published, title, link) == Item(Aged(updated), Aged(published), title, link)

\* The timestamp that is to decide on an Atom entry.
Decisive(entry) == IF entry.date # EmptyDate THEN entry.date ELSE entry.published

\* C28: the Atom adapters report exactly the entries whose updated timestamp
\* is in the window, or, for entries without updated, whose published
\* timestamp is; an entry published 48 hours and updated 2 hours ago is
\* reported, one published 2 hours and updated 48 hours ago is not.
C28_AtomUpdatedDecides ==
    Checked /\ Decoded /\ lastCheck.kind \in AtomKinds
    => LET items == lastCheck.env.resp.payload.items
           r == lastCheck.res
           due == SelectSeq([i \in 1..Len(items) |-> i],
                            LAMBDA i : LET p == ParseDate(Decisive(items[i]))
                                       IN  p.ok /\ lastCheck.env.clocks[i] - p.t
                                                   < CheckPeriodHours * MinutesPerHour)
       IN  /\ r.rendered = [k \in 1..Len(due) |->
                               [title |-> items[due[k]].title, link |-> items[due[k]].link]]
           /\ items = <<AtomEntry(120, 2880, "t1", "https://a")>> => Len(r.rendered) = 1
           /\ items = <<AtomEntry(2880, 120, "t2", "https://b")>> => r.rendered = <<>>

C28_Witness ==
    /\ Checked /\ Decoded
    /\ lastCheck.kind = "GCPSecurity"
    /\ lastCheck.env.resp.payload.items
          = <<AtomEntry(2880, 120, "t2", "https://b"), AtomEntry(120, 2880, "t1", "https://a")>>
    /\ lastCheck.res.rendered = <<[title |-> "t1", link |-> "https://a"]>>
    /\ lastCheck.res.updated

\* C29: a summary with the "completed, see above" template goes to a webhook
\* that accepted an update notification of an adapter earlier in the run.
C29_SeeAboveOnSummaryChannel ==
    \A k \in 1..Len(summary) :
       summary[k].msg.header = "completed, see above"
       => \A p \in 1..Len(summary[k].posts) : summary[k].posts[p].to \in outcomes.delivered

\* The start of the run that calls IsRecent, and of the run a day before.
ThisRun == Now0
PreviousRun == Now0 - 24 * MinutesPerHour

\* C30: with runs started 24 hours apart and the 25-hour window, a timestamp
\* that lies after the start of the previous run and not after the start of
\* this run is judged recent whenever this run gets to it, in every layout
\* that parses, the date-only one (midnight UTC) included.
C30_DailyRunsLeaveNoGap ==
    /\ lab.op = "IsRecent"
    /\ lab.h = CheckPeriodHours
    /\ lab.parsed.ok
    /\ PreviousRun < lab.parsed.t /\ lab.parsed.t <= ThisRun
    => lab.recent

\* A date-only text of today, read as midnight UTC ten hours before the run,
\* judged nine minutes into the run.
C30_Witness ==
    /\ lab.op = "IsRecent"
    /\ lab.h = CheckPeriodHours
    /\ lab.ts.form = "date"
    /\ lab.parsed = [ok |-> TRUE, t |-> ThisRun - 10 * MinutesPerHour]
    /\ lab.now = ThisRun + 9
    /\ lab.recent

====
